---- MODULE Spec2Model ----
(***************************************************************************)
(* StreamSwap: a continuous token-swap stream.  One stream contract        *)
(* (contracts/stream/src/contract.rs) with its positions, the distribution *)
(* engine update_stream / update_position and the share arithmetic of      *)
(* state.rs.  Every execute_* handler is an operator computing the         *)
(* handler's result (error, new stream, new positions, messages); the      *)
(* host commits the result only when the handler returns Ok.               *)
(***************************************************************************)
EXTENDS Integers, Sequences, FiniteSets, TLC

\* ------------------------------------------------------------------ bounds
\* Decimal / Decimal256 keep 18 fractional digits (10^18); the model keeps
\* the same floor arithmetic on a unit that fits the checker's integers.
DECIMAL_FRACTIONAL == 1000
\* length of the bootstrapping phase and of the stream window
BootstrapLen == 1
StreamLen == 2
\* the largest amount a single Subscribe pays, and the cap on all deposits
MaxAmount == 2
MaxDeposits == 3
\* the out supply offered by the stream
OutSupply == 2
\* the threshold of the stream variant that has one
ThresholdAmount == 2
\* the out amount of the pool of the stream variant that creates one
OutAmountClp == 1

\* ------------------------------------------------ instantiate parameters
BootstrapStart == 1
StartTime == BootstrapStart + BootstrapLen
EndTime == StartTime + StreamLen
MaxTime == EndTime + 1

Owners == {"alice", "bob"}
\* an address that owns no position and acts as alice's operator
Operator == "carol"
Treasury == "treasury"
StreamAdmin == "admin"
FeeCollector == "collector"
\* the fee collector a later UpdateParams of the factory names
NewFeeCollector == "new_fee_collector"
\* the admin of the factory
ProtocolAdmin == "protocol_admin"
NoAddr == "none"
Senders == Owners \cup {Operator, Treasury, StreamAdmin}

\* FactoryParams.exit_fee_percent, a Decimal (here 50%)
ExitFeePercent == DECIMAL_FRACTIONAL \div 2
\* the exit fee percent a later UpdateParams of the factory sets (1%)
NewExitFeePercent == DECIMAL_FRACTIONAL \div 100

\* the parameters the factory is instantiated with
DefaultParams == [
    stream_creation_fee |-> 1,
    exit_fee_percent |-> ExitFeePercent,
    fee_collector |-> FeeCollector,
    accepted_in_denoms |-> "in",
    min_stream_blocks |-> 1,
    min_blocks_until_start_block |-> 1 ]

\* the factory after its instantiation, with last_stream_id streams created
NewFactory(last_stream_id) ==
    [params |-> DefaultParams, frozen |-> FALSE,
     last_stream_id |-> last_stream_id]

Min(a, b) == IF a < b THEN a ELSE b

\* --------------------------------------------------------------- state
VARIABLES
    now,            \* env.block.time
    stream,         \* STREAM
    positions,      \* POSITIONS: owner -> Position, stored owners only
    threshold,      \* ThresholdState: {} when unset, {t} when set
    create_pool,    \* Stream.create_pool: {} when None, {out_amount_clp}
    bank_in,        \* in_denom held by the contract (deposits - transfers)
    out_paid,       \* out_denom paid to subscribers by ExitStream
    out_refunded,   \* out_denom refunded to the treasury
    positions_ever, \* number of positions created so far
    deposits,       \* in_denom deposited through Subscribe so far
    net_in,         \* per owner: in subscribed minus in sent back, 0 once removed
    index_dust,     \* out (in Decimal atomics) dropped by dist_index rounding
    factory_params, \* FACTORY_PARAMS: the factory's Params as instantiate saved them
    factory,        \* the factory: its Params, its freeze state, its last stream id
    fee_collected,  \* in_denom received so far, per fee collector
    vesting         \* VESTING: owner -> address of the owner's vesting contract

vars == <<now, stream, positions, threshold, create_pool, bank_in, out_paid,
          out_refunded, positions_ever, deposits, net_in, index_dust,
          factory_params, factory, fee_collected, vesting>>

\* ------------------------------------------------------- Stream (state.rs)
\* Stream::new
NewStream == [
    dist_index |-> 0,
    last_updated |-> StartTime,
    end_time |-> EndTime,
    out_remaining |-> OutSupply,
    in_supply |-> 0,
    spent_in |-> 0,
    shares |-> 0,
    current_streamed_price |-> 0,
    vesting |-> {},
    status |-> "Waiting" ]

\* a position created with the index of a fresh stream
NewPositionAtZero(owner, in_balance, shares, index, operator) == [
    owner |-> owner,
    in_balance |-> in_balance,
    shares |-> shares,
    index |-> 0,
    purchased |-> 0,
    pending_purchase |-> 0,
    spent |-> 0,
    operator |-> operator ]

\* Position::new.  Position.last_updated, the time of the last sync, is
\* written by update_position and read by no handler: it is left out.
NewPosition(owner, in_balance, shares, index, operator) == [
    owner |-> owner,
    in_balance |-> in_balance,
    shares |-> shares,
    index |-> index,
    purchased |-> 0,
    pending_purchase |-> 0,
    spent |-> 0,
    operator |-> operator ]

\* a status check that never sees the cancellation
is_cancelled_never(s) == FALSE

\* Stream::is_cancelled
is_cancelled(s) == s.status = "Cancelled"
is_finalized(s) == s.status = "Finalized"
is_active(s) == s.status = "Active"
is_bootstrapping(s) == s.status = "Bootstrapping"
\* the stream window is over: exits stay open after the finalization
is_ended(s) == s.status \in {"Ended", "Finalized"}

\* Stream::compute_shares_amount.  The division panics when in_supply = 0:
\* ComputeSharesPanics tells the caller, which then aborts.
ComputeSharesPanics(s, amount_in) ==
    ~(s.shares = 0 \/ amount_in = 0) /\ s.in_supply = 0

\* as many shares as in tokens, whatever the supply
compute_shares_amount_unscaled(s, amount_in, round_up) == amount_in

\* a round-up that adds the whole in_supply, one more than needed
compute_shares_amount_over(s, amount_in, round_up) ==
    IF s.shares = 0 \/ amount_in = 0 THEN amount_in
    ELSE IF round_up
         THEN (s.shares * amount_in + s.in_supply) \div s.in_supply
         ELSE (s.shares * amount_in) \div s.in_supply

compute_shares_amount(s, amount_in, round_up) ==
    IF s.shares = 0 \/ amount_in = 0 THEN amount_in
    ELSE IF round_up
         THEN (s.shares * amount_in + s.in_supply - 1) \div s.in_supply
         ELSE (s.shares * amount_in) \div s.in_supply

\* Stream::update_status
update_status(s, t) ==
    IF s.status \in {"Finalized", "Cancelled"} THEN s
    ELSE LET s1 == IF s.status = "Waiting" /\ t >= BootstrapStart
                   THEN "Bootstrapping" ELSE s.status
             s2 == IF s1 = "Bootstrapping" /\ t >= StartTime
                   THEN "Active" ELSE s1
             s3 == IF s2 = "Active" /\ t >= s.end_time THEN "Ended" ELSE s2
         IN [s EXCEPT !.status = s3]

\* ThresholdState::error_if_not_reached
threshold_not_reached(s) == \E t \in threshold : s.spent_in < t

\* ------------------------------------------------- distribution engine
\* a diff whose numerator is not held at 0 when now is before last_updated
calculate_diff_signed(end_time, last_updated, now_time) ==
    LET n == Min(now_time, end_time)
        numerator == n - last_updated
        denominator == IF end_time > last_updated
                       THEN end_time - last_updated ELSE 0
    IN IF denominator = 0 \/ numerator = 0 THEN 0
       ELSE (numerator * DECIMAL_FRACTIONAL) \div denominator

\* a diff whose now is not held at the end time
calculate_diff_uncapped(end_time, last_updated, now_time) ==
    LET numerator == IF now_time > last_updated
                     THEN now_time - last_updated ELSE 0
        denominator == IF end_time > last_updated
                       THEN end_time - last_updated ELSE 0
    IN IF denominator = 0 \/ numerator = 0 THEN 0
       ELSE (numerator * DECIMAL_FRACTIONAL) \div denominator

\* calculate_diff: a Decimal, floor((now - last) / (end - last)) in atomics
calculate_diff(end_time, last_updated, now_time) ==
    LET n == Min(now_time, end_time)
        numerator == IF n > last_updated THEN n - last_updated ELSE 0
        denominator == IF end_time > last_updated
                       THEN end_time - last_updated ELSE 0
    IN IF denominator = 0 \/ numerator = 0 THEN 0
       ELSE (numerator * DECIMAL_FRACTIONAL) \div denominator

\* the last_updated of an update that never moves it off the start time
update_last_updated_never(now_time) == StartTime

\* the last_updated of an update that does not hold it at the start time
update_last_updated_to_now(now_time) == now_time

\* the last_updated an update leaves: never before the start time
update_last_updated(now_time) ==
    IF now_time < StartTime THEN StartTime ELSE now_time

\* the status of an update that turns every started stream active
update_stream_status_any(now_time, status) ==
    IF now_time >= StartTime THEN "Active" ELSE status

\* the status an update leaves: a waiting stream turns active at the start
update_stream_status(now_time, status) ==
    IF now_time >= StartTime /\ status = "Waiting" THEN "Active" ELSE status

\* update_stream / Stream::update
update_stream(now_time, s) ==
    LET diff == calculate_diff(s.end_time, s.last_updated, now_time)
        distributes == s.shares # 0 /\ diff # 0
        new_distribution_balance ==
            IF distributes
            THEN (s.out_remaining * diff) \div DECIMAL_FRACTIONAL ELSE 0
        spent_in == IF distributes
                    THEN (s.in_supply * diff) \div DECIMAL_FRACTIONAL ELSE 0
        moved == new_distribution_balance # 0
    IN [s EXCEPT
          !.spent_in = s.spent_in + spent_in,
          !.in_supply = s.in_supply - spent_in,
          !.out_remaining = s.out_remaining - new_distribution_balance,
          !.dist_index = IF moved
              THEN s.dist_index
                   + (new_distribution_balance * DECIMAL_FRACTIONAL) \div s.shares
              ELSE s.dist_index,
          !.current_streamed_price = IF moved
              THEN (spent_in * DECIMAL_FRACTIONAL) \div new_distribution_balance
              ELSE s.current_streamed_price,
          !.last_updated = update_last_updated(now_time),
          !.status = update_stream_status(now_time, s.status) ]

\* helpers::get_decimals: the fractional part of a Decimal256
get_decimals(d) == d % DECIMAL_FRACTIONAL

\* update_position fails when in_balance.checked_sub(in_remaining) underflows
position_in_remaining(s, pos) == (s.in_supply * pos.shares) \div s.shares

update_position_fails(s, pos) ==
    s.shares # 0 /\ position_in_remaining(s, pos) > pos.in_balance

\* update_position crediting the purchase rounded up instead of floored
update_position_ceil(s, pos) ==
    IF s.shares = 0
    THEN [pos EXCEPT !.index = s.dist_index]
    ELSE LET index_diff == s.dist_index - pos.index
             purchased == pos.shares * index_diff + pos.pending_purchase
             in_remaining == position_in_remaining(s, pos)
             spent == pos.in_balance - in_remaining
         IN [pos EXCEPT
               !.spent = pos.spent + spent,
               !.in_balance = in_remaining,
               !.pending_purchase = 0,
               !.purchased = pos.purchased
                   + (purchased + DECIMAL_FRACTIONAL - 1) \div DECIMAL_FRACTIONAL,
               !.index = s.dist_index ]

\* update_position: the position after the sync
update_position(s, pos) ==
    IF s.shares = 0
    THEN [pos EXCEPT !.index = s.dist_index]
    ELSE LET index_diff == s.dist_index - pos.index
             purchased == pos.shares * index_diff + pos.pending_purchase
             in_remaining == position_in_remaining(s, pos)
             spent == pos.in_balance - in_remaining
         IN [pos EXCEPT
               !.spent = pos.spent + spent,
               !.in_balance = in_remaining,
               !.pending_purchase = get_decimals(purchased),
               !.purchased = pos.purchased + purchased \div DECIMAL_FRACTIONAL,
               !.index = s.dist_index ]

\* an access check that knows no operator
owner_only(sender, pos) == pos.owner = sender

\* an access check that lets every sender through
access_open(sender, pos) == TRUE

\* check_access: the sender is the owner or the operator of the position
check_access(sender, pos) ==
    pos.owner = sender \/ (pos.operator # NoAddr /\ pos.operator = sender)

\* --------------------------------------------------------- the handlers
Stored(p) == DOMAIN p
Save(p, o, pos) == [x \in (DOMAIN p) \cup {o} |-> IF x = o THEN pos ELSE p[x]]
\* a removal that leaves the position stored
Keep(p, o) == p
Remove(p, o) == [x \in (DOMAIN p) \ {o} |-> p[x]]

BankSend(to, denom, amount) == [to |-> to, denom |-> denom, amount |-> amount]

Res(err, s, p, msgs) ==
    [err |-> err, stream |-> s, positions |-> p, msgs |-> msgs,
     vesting |-> vesting]
Fail(err) == Res(err, stream, positions, <<>>)

\* open in every status but the ended ones
subscription_open_until_ended(s) ==
    s.status \notin {"Ended", "Finalized", "Cancelled"}

\* Subscribe and Withdraw are open while bootstrapping or active
subscription_open(s) == is_active(s) \/ is_bootstrapping(s)

\* a deposit that mints the shares and leaves in_supply as it was
stream_after_subscribe_shares_only(s, in_amount, new_shares) ==
    [s EXCEPT !.shares = s.shares + new_shares]

\* the stream after a deposit / a withdrawal / an exit
stream_after_subscribe(s, in_amount, new_shares) ==
    [s EXCEPT !.in_supply = s.in_supply + in_amount,
              !.shares = s.shares + new_shares]

\* a withdrawal that burns the shares and leaves in_supply as it was
stream_after_withdraw_shares_only(s, withdraw_amount, shares_amount) ==
    [s EXCEPT !.shares = s.shares - shares_amount]

stream_after_withdraw(s, withdraw_amount, shares_amount) ==
    [s EXCEPT !.in_supply = s.in_supply - withdraw_amount,
              !.shares = s.shares - shares_amount]

\* an exit that leaves the shares of the leaving position in the stream
stream_after_exit_keeping_shares(s, position) == s

stream_after_exit(s, position) ==
    [s EXCEPT !.shares = s.shares - position.shares]

\* must_pay: exactly one coin of in_denom with a non-zero amount
NoFunds(in_amount) == in_amount = 0

\* execute_subscribe
execute_subscribe(sender, operator, operator_target, in_amount) ==
    IF is_cancelled(stream) THEN Fail("StreamKillswitchActive")
    ELSE LET s1 == update_status(stream, now) IN
    IF ~subscription_open(s1) THEN Fail("StreamNotStarted")
    ELSE IF NoFunds(in_amount) THEN Fail("NoFundsSent")
    ELSE LET s2 == update_stream(now, s1)
             new_shares == compute_shares_amount(s2, in_amount, FALSE)
             s3 == stream_after_subscribe(s2, in_amount, new_shares)
         IN
    IF operator_target \notin Stored(positions)
    THEN IF operator_target # sender THEN Fail("Unauthorized")
         ELSE IF ComputeSharesPanics(s2, in_amount) THEN Fail("DivideByZero")
         ELSE Res("ok", s3,
                  Save(positions, operator_target,
                       NewPosition(sender, in_amount, new_shares,
                                   s2.dist_index, operator)),
                  <<>>)
    ELSE LET position == positions[operator_target] IN
         IF ~check_access(sender, position) THEN Fail("Unauthorized")
         ELSE IF ComputeSharesPanics(s2, in_amount) THEN Fail("DivideByZero")
         ELSE IF update_position_fails(s2, position) THEN Fail("Overflow")
         ELSE LET synced == update_position(s2, position)
                  topped == [synced EXCEPT
                               !.in_balance = synced.in_balance + in_amount,
                               !.shares = synced.shares + new_shares]
              IN Res("ok", s3, Save(positions, operator_target, topped), <<>>)

\* execute_update_operator
execute_update_operator(sender, operator) ==
    IF sender \notin Stored(positions) THEN Fail("NotFound")
    ELSE Res("ok", stream,
             Save(positions, sender, [positions[sender] EXCEPT !.operator = operator]),
             <<>>)

\* execute_update_stream
execute_update_stream == Res("ok", update_stream(now, stream), positions, <<>>)

\* execute_update_position
execute_update_position(sender, operator_target) ==
    IF operator_target \notin Stored(positions) THEN Fail("NotFound")
    ELSE LET position == positions[operator_target] IN
    IF ~check_access(sender, position) THEN Fail("Unauthorized")
    ELSE IF is_cancelled(stream) THEN Fail("StreamIsCancelled")
    ELSE LET s2 == update_stream(now, stream) IN
    IF update_position_fails(s2, position) THEN Fail("Overflow")
    ELSE Res("ok", s2,
             Save(positions, operator_target, update_position(s2, position)),
             <<>>)

\* execute_withdraw; cap is {} (None) or {amount}
execute_withdraw(sender, cap, operator_target) ==
    LET s1 == update_status(stream, now) IN
    IF ~subscription_open(s1) THEN Fail("StreamNotStarted")
    ELSE IF operator_target \notin Stored(positions) THEN Fail("NotFound")
    ELSE LET position == positions[operator_target] IN
    IF ~check_access(sender, position) THEN Fail("Unauthorized")
    ELSE LET s2 == update_stream(now, s1) IN
    IF update_position_fails(s2, position) THEN Fail("Overflow")
    ELSE LET synced == update_position(s2, position)
             withdraw_amount == IF cap = {} THEN synced.in_balance
                                ELSE CHOOSE c \in cap : TRUE
         IN
    IF withdraw_amount > synced.in_balance
    THEN Fail("WithdrawAmountExceedsBalance")
    ELSE IF withdraw_amount = 0 THEN Fail("InvalidWithdrawAmount")
    ELSE IF withdraw_amount # synced.in_balance
            /\ ComputeSharesPanics(s2, withdraw_amount)
    THEN Fail("DivideByZero")
    ELSE LET shares_amount ==
                 IF withdraw_amount = synced.in_balance THEN synced.shares
                 ELSE compute_shares_amount(s2, withdraw_amount, TRUE)
         IN
    IF \/ s2.in_supply < withdraw_amount
       \/ s2.shares < shares_amount
       \/ synced.shares < shares_amount
    THEN Fail("Overflow")
    ELSE Res("ok",
             stream_after_withdraw(s2, withdraw_amount, shares_amount),
             Save(positions, operator_target,
                  [synced EXCEPT
                     !.in_balance = synced.in_balance - withdraw_amount,
                     !.shares = synced.shares - shares_amount]),
             << BankSend(operator_target, "in", withdraw_amount) >>)

\* the Params of the factory as they are now
live_factory_params == factory.params

\* FACTORY_PARAMS.load
saved_factory_params == factory_params

\* the swap fee rounded up instead of floored
swap_fee_ceil(x) ==
    (x * ExitFeePercent + DECIMAL_FRACTIONAL - 1) \div DECIMAL_FRACTIONAL

\* Decimal::from_ratio(x, 1).checked_mul(exit_fee_percent) * Uint128::one()
swap_fee_of(x) ==
    (x * saved_factory_params.exit_fee_percent) \div DECIMAL_FRACTIONAL

\* the revenue without the swap fee taken off
creator_revenue_of_gross(spent_in, swap_fee) == spent_in

\* the creator's revenue at the finalization
creator_revenue_of(spent_in, swap_fee) == spent_in - swap_fee

\* the refund of the whole out supply instead of what remains
remaining_out_supply(s) == OutSupply

\* the out refunded at the finalization
remaining_out(s) == s.out_remaining

\* the messages of the pool creation: they carry no funds of the contract
PoolManager == "poolmanager"
MsgCreatePool ==
    [to |-> PoolManager, denom |-> "none", amount |-> 0, msg |-> "create_pool"]
MsgCreatePosition(sender, in_clp, out_amount_clp) ==
    [to |-> PoolManager, denom |-> "none", amount |-> 0,
     msg |-> "create_position", sender |-> sender,
     in_amount |-> in_clp, out_amount |-> out_amount_clp]

\* amount of in tokens allocated for clp
in_clp_of(out_amount_clp, spent_in) ==
    (out_amount_clp \div OutSupply) * spent_in

\* a finalization open to every sender
any_sender(sender) == TRUE

\* the finalization is the treasury's
treasury_is(sender) == Treasury = sender

\* execute_finalize_stream; new_treasury is NoAddr (None) or an address
execute_finalize_stream(sender, new_treasury) ==
    IF is_finalized(stream) THEN Fail("StreamAlreadyFinalized")
    ELSE IF is_cancelled(stream) THEN Fail("StreamKillswitchActive")
    ELSE IF ~treasury_is(sender) THEN Fail("Unauthorized")
    ELSE LET s1 == update_status(stream, now) IN
    IF ~is_ended(s1) THEN Fail("StreamNotEnded")
    ELSE LET s2 == update_stream(now, s1)
             s3 == [s2 EXCEPT !.status = "Finalized"]
         IN
    IF threshold_not_reached(s3) THEN Fail("ThresholdNotReached")
    ELSE LET treasury == IF new_treasury = NoAddr THEN Treasury ELSE new_treasury
             swap_fee == swap_fee_of(s3.spent_in)
             creator_revenue == creator_revenue_of(s3.spent_in, swap_fee)
             fee_msgs == IF s3.spent_in = 0 THEN <<>>
                         ELSE << BankSend(treasury, "in", creator_revenue),
                                 BankSend(saved_factory_params.fee_collector, "in",
                                          swap_fee) >>
             remaining_msgs == IF s3.out_remaining > 0
                               THEN << BankSend(treasury, "out", remaining_out(s3)) >>
                               ELSE <<>>
             pool_msgs == IF create_pool = {} THEN <<>>
                          ELSE LET out_amount_clp == CHOOSE c \in create_pool : TRUE
                               IN << MsgCreatePool,
                                     MsgCreatePosition(treasury,
                                         in_clp_of(out_amount_clp, s3.spent_in),
                                         out_amount_clp) >>
         IN Res("ok", s3, positions, fee_msgs \o remaining_msgs \o pool_msgs)

\* an exit that does not look at the threshold
exit_without_threshold(s) == FALSE

\* the exit asks the threshold state before it loads the position
exit_threshold_not_reached(s) == threshold_not_reached(s)

\* execute_exit_stream
\* ExecuteMsg::ExitStream.salt: None, or Some of a salt
NoSalt == {}
Salts == {"salt1", "salt2"}

\* instantiate2_address of the stream contract's address, the checksum of the
\* vesting code and the salt: one address per salt
instantiate2_address(salt) == IF salt = "salt1" THEN "vesting1" ELSE "vesting2"
VestingAddrs == {instantiate2_address(salt) : salt \in Salts}

\* CreateStreamMsg.vesting when it is set
VestingMsg == [owner |-> "unset", recipient |-> NoAddr, total |-> 0,
               start_time |-> {}]

\* WasmMsg::Instantiate2 of the vesting contract
MsgInstantiate2(address, vesting_msg, funds, salt) ==
    [to |-> address, denom |-> "out", amount |-> funds,
     msg |-> "instantiate2", vesting |-> vesting_msg, salt |-> salt]

\* the purchased out sent straight to the owner whether vesting is set or not
exit_payment_direct(s, operator_target, position, salt) ==
    << BankSend(operator_target, "out", position.purchased) >>

\* execute_exit_stream, the message that pays the purchased out
exit_payment(s, operator_target, position, salt) ==
    IF s.vesting # {}
    THEN LET cfg == CHOOSE v \in s.vesting : TRUE
             vesting_msg == [cfg EXCEPT !.start_time = {s.end_time},
                                        !.owner = NoAddr,
                                        !.recipient = operator_target,
                                        !.total = position.purchased]
             the_salt == CHOOSE x \in salt : TRUE
         IN << MsgInstantiate2(instantiate2_address(the_salt), vesting_msg,
                               position.purchased, the_salt) >>
    ELSE << BankSend(operator_target, "out", position.purchased) >>

\* execute_exit_stream; salt is NoSalt (None) or {a salt}
execute_exit_stream(sender, operator_target, salt) ==
    IF is_cancelled(stream) THEN Fail("StreamKillswitchActive")
    ELSE LET s1 == update_status(stream, now) IN
    IF ~is_ended(s1) THEN Fail("StreamNotEnded")
    ELSE LET s2 == update_stream(now, s1) IN
    IF exit_threshold_not_reached(s2) THEN Fail("ThresholdNotReached")
    ELSE IF operator_target \notin Stored(positions) THEN Fail("NotFound")
    ELSE LET position == positions[operator_target] IN
    IF ~check_access(sender, position) THEN Fail("Unauthorized")
    ELSE IF update_position_fails(s2, position) THEN Fail("Overflow")
    ELSE LET synced == update_position(s2, position) IN
    IF s2.shares < synced.shares THEN Fail("Overflow")
    ELSE IF s2.vesting # {} /\ salt = NoSalt THEN Fail("InvalidSalt")
    ELSE LET unspent_msgs == IF synced.in_balance # 0
                             THEN << BankSend(operator_target, "in", synced.in_balance) >>
                             ELSE <<>>
             paid == Res("ok", stream_after_exit(s2, synced),
                         Remove(positions, operator_target),
                         exit_payment(s2, operator_target, synced, salt)
                             \o unspent_msgs)
         IN IF s2.vesting = {} THEN paid
            ELSE [paid EXCEPT !.vesting =
                     Save(vesting, operator_target,
                          instantiate2_address(CHOOSE x \in salt : TRUE))]

\* execute_cancel_stream, the stream it saves: Cancelled, and in_supply and
\* spent_in reset so that in_supply holds all the in of the positions again
cancel_reset(s) ==
    [s EXCEPT !.status = "Cancelled",
              !.in_supply = s.in_supply + s.spent_in,
              !.spent_in = 0]

\* killswitch::execute_cancel_stream
execute_cancel_stream(sender) ==
    IF StreamAdmin # sender THEN Fail("Unauthorized")
    ELSE LET s1 == update_status(stream, now) IN
    IF is_cancelled(s1) THEN Fail("StreamIsCancelled")
    ELSE IF is_finalized(s1) THEN Fail("StreamAlreadyFinalized")
    ELSE IF s1.status \notin {"Waiting", "Bootstrapping", "Active"}
    THEN Fail("StreamEnded")
    ELSE Res("ok", cancel_reset(s1), positions,
             << BankSend(Treasury, "out", OutSupply) >>)

\* killswitch::execute_cancel_stream_with_threshold
execute_cancel_stream_with_threshold(sender) ==
    IF StreamAdmin # sender THEN Fail("Unauthorized")
    ELSE LET s1 == update_status(stream, now) IN
    IF is_cancelled(s1) THEN Fail("StreamIsCancelled")
    ELSE IF is_finalized(s1) THEN Fail("StreamAlreadyFinalized")
    ELSE IF ~is_ended(s1) THEN Fail("StreamNotEnded")
    ELSE LET s2 == update_stream(now, s1) IN
    IF ~threshold_not_reached(s2) THEN Fail("ThresholdReached")
    ELSE Res("ok", cancel_reset(s2), positions,
             << BankSend(Treasury, "out", OutSupply) >>)

\* execute_exit_cancelled, the in it hands back: no sync is needed, a sync
\* moves in from in_balance to spent and leaves their sum
total_balance_of(position) == position.in_balance + position.spent

\* execute_exit_cancelled
execute_exit_cancelled(sender, operator_target) ==
    IF ~is_cancelled(stream) THEN Fail("StreamNotCancelled")
    ELSE IF operator_target \notin Stored(positions) THEN Fail("NotFound")
    ELSE LET position == positions[operator_target] IN
    IF position.owner # sender /\ position.operator # sender
    THEN Fail("Unauthorized")
    ELSE LET total_balance == total_balance_of(position) IN
    IF stream.shares < position.shares \/ stream.in_supply < total_balance
    THEN Fail("Overflow")
    ELSE Res("ok",
             [stream EXCEPT !.shares = stream.shares - position.shares,
                            !.in_supply = stream.in_supply - total_balance],
             Remove(positions, operator_target),
             << BankSend(operator_target, "in", total_balance) >>)

\* ------------------------------------------------ the host and the bank
RECURSIVE SumSent(_, _, _)
\* the amount of denom the messages send to the addresses of tos
SumSent(msgs, denom, tos) ==
    IF msgs = <<>> THEN 0
    ELSE LET m == Head(msgs) IN
         (IF m.denom = denom /\ m.to \in tos THEN m.amount ELSE 0)
         + SumSent(Tail(msgs), denom, tos)

Collectors == {FeeCollector, NewFeeCollector}
AllAddrs == Senders \cup Collectors \cup {"new_treasury"}

\* what the rounding of dist_index dropped when the stream went from s to t:
\* the out released minus the out the index hands to the shares
IndexDust(s, t) ==
    (s.out_remaining - t.out_remaining) * DECIMAL_FRACTIONAL
    - (t.dist_index - s.dist_index) * s.shares

\* The host commits the result of a handler: on Ok the state and the
\* messages take effect; on Err everything is rolled back, which leaves
\* the state as it was (a stuttering step).  paid is the in sent along with
\* the message, for the position of owner.
Commit(owner, paid, r) ==
    /\ r.err = "ok"
    /\ stream' = r.stream
    /\ positions' = r.positions
    /\ bank_in' = bank_in + paid - SumSent(r.msgs, "in", AllAddrs)
    /\ deposits' = deposits + paid
    /\ net_in' = [o \in Owners |->
                    IF o \notin Stored(r.positions) THEN 0
                    ELSE net_in[o] + (IF o = owner THEN paid ELSE 0)
                         - SumSent(r.msgs, "in", {o})]
    /\ out_paid' = out_paid + SumSent(r.msgs, "out", Owners \cup VestingAddrs)
    /\ out_refunded' = out_refunded + SumSent(r.msgs, "out", AllAddrs \ Owners)
    /\ positions_ever' = positions_ever
          + Cardinality(Stored(r.positions) \ Stored(positions))
    /\ index_dust' = index_dust + IndexDust(stream, r.stream)
    /\ fee_collected' = [c \in Collectors |->
                           fee_collected[c] + SumSent(r.msgs, "in", {c})]
    /\ vesting' = r.vesting
    /\ UNCHANGED <<now, threshold, create_pool, factory_params, factory>>

Amounts == 0..MaxAmount
Caps == {{}} \cup {{c} : c \in Amounts}
\* the senders of position operations, and the operators a sender may name
PositionSenders == Owners \cup {Operator}
OperatorsOf(sender) == IF sender = "alice" THEN {NoAddr, Operator} ELSE {NoAddr}

\* the state instantiate leaves, create_pool as given
InitWith(pool) ==
    /\ now = 0
    /\ stream = NewStream
    /\ positions = << >>
    /\ threshold \in {{}, {ThresholdAmount}}
    /\ create_pool = pool
    /\ bank_in = 0
    /\ out_paid = 0
    /\ out_refunded = 0
    /\ positions_ever = 0
    /\ deposits = 0
    /\ net_in = [o \in Owners |-> 0]
    /\ index_dust = 0
    /\ factory_params = DefaultParams
    /\ factory = NewFactory(1)
    /\ fee_collected = [c \in Collectors |-> 0]
    /\ vesting = << >>

\* a stream instantiated without create_pool
Init == InitWith({})

\* a stream instantiated with create_pool
InitPool == InitWith({OutAmountClp})

\* the block time moves on
Tick ==
    /\ now < MaxTime
    /\ now' = now + 1
    /\ UNCHANGED <<stream, positions, threshold, create_pool, bank_in,
                   out_paid, out_refunded, positions_ever, deposits,
                   net_in, index_dust, factory_params, factory,
                   fee_collected, vesting>>

Subscribe ==
    \E sender \in PositionSenders, target \in Owners, amount \in Amounts :
      \E operator \in OperatorsOf(sender) :
        /\ deposits + amount <= MaxDeposits
        /\ Commit(target, amount,
                  execute_subscribe(sender, operator, target, amount))

Withdraw ==
    \E sender \in PositionSenders, target \in Owners, cap \in Caps :
        Commit(NoAddr, 0, execute_withdraw(sender, cap, target))

UpdateOperator ==
    \E sender \in Owners : \E operator \in OperatorsOf(sender) :
        Commit(NoAddr, 0,
               execute_update_operator(sender, operator))

UpdateStream ==
    Commit(NoAddr, 0, execute_update_stream)

UpdatePosition ==
    \E sender \in PositionSenders, target \in Owners :
        Commit(NoAddr, 0,
               execute_update_position(sender, target))

FinalizeStream ==
    \E sender \in {Treasury, StreamAdmin}, new_treasury \in {NoAddr, "new_treasury"} :
        Commit(NoAddr, 0,
               execute_finalize_stream(sender, new_treasury))

\* the chain refuses an Instantiate2 at an address that is taken
AddressFree(salt) ==
    \A owner \in DOMAIN vesting :
        \A x \in salt : vesting[owner] # instantiate2_address(x)

\* the salts an ExitStream is sent with: without vesting the salt is not read
ExitSalts ==
    IF stream.vesting = {} THEN {NoSalt}
    ELSE {NoSalt} \cup {{x} : x \in Salts}

ExitStream ==
    \E sender \in PositionSenders, target \in Owners, salt \in ExitSalts :
        /\ stream.vesting # {} => AddressFree(salt)
        /\ Commit(NoAddr, 0, execute_exit_stream(sender, target, salt))

CancelStream ==
    \E sender \in {Treasury, StreamAdmin} :
        Commit(NoAddr, 0, execute_cancel_stream(sender))

CancelStreamWithThreshold ==
    \E sender \in {Treasury, StreamAdmin} :
        Commit(NoAddr, 0,
               execute_cancel_stream_with_threshold(sender))

ExitCancelled ==
    \E sender \in PositionSenders, target \in Owners :
        Commit(NoAddr, 0,
               execute_exit_cancelled(sender, target))

Next ==
    \/ Tick
    \/ Subscribe
    \/ Withdraw
    \/ UpdateOperator
    \/ UpdateStream
    \/ UpdatePosition
    \/ FinalizeStream
    \/ ExitStream
    \/ CancelStream
    \/ CancelStreamWithThreshold
    \/ ExitCancelled

Spec == Init /\ [][Next]_vars

SpecPool == InitPool /\ [][Next]_vars

\* ===================================================== the properties
RECURSIVE SumOver(_, _)
\* the sum of f[o] over the owners o of S
SumOver(f, S) ==
    IF S = {} THEN 0
    ELSE LET o == CHOOSE x \in S : TRUE
         IN f[o] + SumOver(f, S \ {o})

TotalPurchased ==
    SumOver([o \in Stored(positions) |-> positions[o].purchased], Stored(positions))
TotalShares ==
    SumOver([o \in Stored(positions) |-> positions[o].shares], Stored(positions))
TotalInBalance ==
    SumOver([o \in Stored(positions) |-> positions[o].in_balance], Stored(positions))
TotalInBalancePlusSpent ==
    SumOver([o \in Stored(positions) |-> positions[o].in_balance + positions[o].spent],
            Stored(positions))

AllExited == Stored(positions) = {}
OutShortfall == OutSupply - (out_paid + out_refunded)

\* C1: in every reachable state the out credited to subscribers (the
\* purchased of the stored positions plus what ExitStream already paid)
\* never exceeds the out the stream has released, out_asset.amount -
\* out_remaining.
C1_NoPhantomOut ==
    out_paid + TotalPurchased <= OutSupply - stream.out_remaining

\* a position has been paid by an exit while another holds credited out
C1_Witness ==
    /\ out_paid > 0
    /\ \E o \in Stored(positions) : positions[o].purchased > 0

\* C2 as stated: once the stream is finalized and every position has exited,
\* exits plus the finalize refund are at most out_asset.amount and the
\* shortfall is strictly less than the number of positions ever created.
C2_Original ==
    (is_finalized(stream) /\ AllExited /\ positions_ever > 0)
        => /\ out_paid + out_refunded <= OutSupply
           /\ OutShortfall < positions_ever

\* C2 amended: once the stream is finalized and every position has exited,
\* exits plus the finalize refund are at most out_asset.amount, and the
\* shortfall is at most the number of positions ever created plus the out
\* that the rounding of dist_index dropped.
C2_OutConservation ==
    (is_finalized(stream) /\ AllExited)
        => /\ out_paid + out_refunded <= OutSupply
           /\ OutShortfall * DECIMAL_FRACTIONAL
                <= positions_ever * DECIMAL_FRACTIONAL + index_dust

\* finalized, two positions created and exited, out paid and dust left
C2_Witness ==
    /\ is_finalized(stream)
    /\ AllExited
    /\ positions_ever >= 2
    /\ out_paid > 0
    /\ OutShortfall > 0

\* C3: once the stream is finalized and every position has exited, the
\* in_denom the contract sent out (withdrawals, exit refunds, revenue and
\* swap fee) equals the in_denom deposited: the contract holds none.
C3_InConservation ==
    (is_finalized(stream) /\ AllExited) => bank_in = 0

\* finalized and everyone out after deposits, a withdrawal and spending
C3_Witness ==
    /\ is_finalized(stream)
    /\ AllExited
    /\ positions_ever >= 2
    /\ stream.spent_in >= 2
    /\ stream.spent_in < deposits

\* C4: after every operation the shares of the stored positions add up to
\* stream.shares.
C4_SharesSum == TotalShares = stream.shares

\* two positions hold shares after one of them has exited or withdrawn
C4_Witness ==
    /\ stream.shares > 0
    /\ \E o \in Stored(positions) : positions[o].shares = 0
    /\ \E o \in Stored(positions) : positions[o].shares > 0

\* C5 as stated: after every operation the in_balance of the stored
\* positions add up to stream.in_supply.
C5_Original == TotalInBalance = stream.in_supply

\* C5 amended: as long as no position has been removed, in_balance + spent
\* of the stored positions add up to stream.in_supply + stream.spent_in, and
\* the in_balance alone add up to stream.in_supply while a stream that is
\* not cancelled has spent nothing.
C5_InBalanceSum ==
    positions_ever = Cardinality(Stored(positions))
        => /\ TotalInBalancePlusSpent = stream.in_supply + stream.spent_in
           /\ (stream.spent_in = 0 /\ ~is_cancelled(stream))
                 => TotalInBalance = stream.in_supply

\* two positions, in spent by the stream, one position synced and one not
C5_Witness ==
    /\ Cardinality(Stored(positions)) = 2
    /\ positions_ever = 2
    /\ stream.spent_in > 0
    /\ \E o \in Stored(positions) : positions[o].spent > 0
    /\ \E o \in Stored(positions) :
          positions[o].spent = 0 /\ positions[o].index < stream.dist_index

\* C6 as stated, for the streams that are not cancelled: for every stored
\* position the share of in_supply the position is entitled to,
\* floor(in_supply * shares / stream.shares), is at most its in_balance, so
\* update_position never fails with a subtraction underflow.
C6_SyncNeverUnderflows ==
    ~is_cancelled(stream)
        => \A o \in Stored(positions) :
               ~update_position_fails(stream, positions[o])

\* what a sync against the stream s credits to the position pos
SyncCredit(s, pos) ==
    (pos.shares * (s.dist_index - pos.index) + pos.pending_purchase)
        \div DECIMAL_FRACTIONAL

C7_Step ==
    /\ \A o \in Stored(positions') \ Stored(positions) :
          /\ positions'[o].index = stream'.dist_index
          /\ stream'.dist_index
                = update_stream(now, update_status(stream, now)).dist_index
          /\ positions'[o].purchased = 0
          /\ positions'[o].pending_purchase = 0
    /\ \A o \in Stored(positions') \cap Stored(positions) :
          /\ (deposits' > deposits /\ positions'[o] # positions[o])
                => /\ positions'[o].purchased
                        = positions[o].purchased
                          + SyncCredit(stream', positions[o])
                   /\ positions'[o].index = stream'.dist_index
          /\ positions'[o].purchased # positions[o].purchased
                => positions[o].index < stream'.dist_index

\* C7: a Subscribe at time t credits no out released before t: a new
\* position starts with index = dist_index as advanced to t and purchased
\* = 0; a top-up first syncs the position with the shares it had before the
\* deposit; and the purchased of a position changes only in a step whose
\* dist_index is above the index of the position.
C7_NoPastDistribution == [][C7_Step]_vars

\* a position that joined after out was released to an earlier position
C7_Witness ==
    \E o, e \in Stored(positions) :
        /\ positions[o].index = stream.dist_index
        /\ stream.dist_index > 0
        /\ positions[o].shares > 0
        /\ positions[o].purchased = 0
        /\ positions[o].spent = 0
        /\ positions[e].purchased > 0

\* C8: nothing is distributed before the start: at now < start dist_index
\* = 0, out_remaining = out_asset.amount, spent_in = 0 and every position
\* has purchased = 0 and spent = 0; and the interval the next distribution
\* is apportioned over never begins before the start, whatever was advanced
\* before it: last_updated is the start time up to the start and never
\* earlier than it.
C8_NoDistributionBeforeStart ==
    /\ now < StartTime
          => /\ stream.dist_index = 0
             /\ stream.out_remaining = OutSupply
             /\ stream.spent_in = 0
             /\ \A o \in Stored(positions) :
                   /\ positions[o].purchased = 0
                   /\ positions[o].pending_purchase = 0
                   /\ positions[o].spent = 0
    /\ now <= StartTime => stream.last_updated = StartTime
    /\ stream.last_updated >= StartTime

\* before the start, after a deposit and a full withdrawal
C8_Witness ==
    /\ now < StartTime
    /\ is_bootstrapping(stream)
    /\ \E o \in Stored(positions) : positions[o].in_balance > 0
    /\ \E o \in Stored(positions) :
          positions[o].shares = 0 /\ positions[o].in_balance = 0

StatusRank(status) ==
    CASE status = "Waiting" -> 0
      [] status = "Bootstrapping" -> 1
      [] status = "Active" -> 2
      [] status = "Ended" -> 3
      [] status = "Finalized" -> 4
      [] OTHER -> 5

C9_Step ==
    /\ stream.status \in {"Finalized", "Cancelled"}
          => stream'.status = stream.status
    /\ stream'.status # stream.status
          => \/ stream'.status = "Cancelled"
             \/ StatusRank(stream'.status) > StatusRank(stream.status)

\* C9: the status only moves forward along Waiting, Bootstrapping, Active,
\* Ended, Finalized, or into Cancelled; it never moves backward, and no
\* step changes a Finalized or a Cancelled status.
C9_StatusForward == [][C9_Step]_vars

\* a stream finalized at an earlier time than now
C9_Witness ==
    /\ is_finalized(stream)
    /\ stream.last_updated < now

C10_Window == BootstrapStart <= now /\ now < EndTime

C10_Unchanged(r) ==
    r.err # "ok" => r.stream = stream /\ r.positions = positions /\ r.msgs = <<>>

\* C10: Subscribe and Withdraw succeed only while the stream is
\* Bootstrapping or Active, bootstrap_start <= now < end; outside of the
\* window they fail with StreamNotStarted, Subscribe on a cancelled
\* stream fails with StreamKillswitchActive, and a failing call leaves the
\* stream and the positions as they were and emits no transfer.
C10_SubscribeWithdrawGating ==
    \A sender \in PositionSenders, target \in Owners :
        /\ \A amount \in Amounts, operator \in {NoAddr, Operator} :
              LET r == execute_subscribe(sender, operator, target, amount) IN
              /\ r.err = "ok"
                    => C10_Window /\ r.stream.status \in {"Bootstrapping", "Active"}
              /\ is_cancelled(stream) => r.err = "StreamKillswitchActive"
              /\ (~is_cancelled(stream) /\ ~C10_Window)
                    => r.err = "StreamNotStarted"
              /\ C10_Unchanged(r)
        /\ \A cap \in Caps :
              LET r == execute_withdraw(sender, cap, target) IN
              /\ r.err = "ok"
                    => C10_Window /\ r.stream.status \in {"Bootstrapping", "Active"}
              /\ ~C10_Window => r.err = "StreamNotStarted"
              /\ C10_Unchanged(r)

\* after the end, with a position stored: both calls are refused
C10_Witness ==
    /\ now >= EndTime
    /\ ~is_cancelled(stream)
    /\ "alice" \in Stored(positions)
    /\ positions["alice"].in_balance > 0
    /\ execute_subscribe("alice", NoAddr, "alice", 1).err = "StreamNotStarted"
    /\ execute_withdraw("alice", {}, "alice").err = "StreamNotStarted"

\* the senders of the stream operations
StreamSenders == {Treasury, StreamAdmin} \cup Owners
NewTreasuries == {NoAddr, "new_treasury"}

\* the stream as a handler sees it after update_status and the advance
Advanced == update_stream(now, update_status(stream, now))

\* the threshold, if set, is met by the advanced stream
ThresholdMet == \A t \in threshold : Advanced.spent_in >= t

\* C11: FinalizeStream succeeds if and only if the sender is the treasury,
\* now >= end, the stream is neither Cancelled nor Finalized and the
\* threshold, if set, is met; otherwise it fails with StreamAlreadyFinalized,
\* StreamKillswitchActive, Unauthorized, StreamNotEnded or
\* ThresholdNotReached and leaves the stream as it was, without a message;
\* so a finalized stream is never finalized again.
C11_FinalizeGating ==
    \A sender \in StreamSenders, new_treasury \in NewTreasuries :
        LET r == execute_finalize_stream(sender, new_treasury) IN
        /\ r.err = "ok"
             <=> /\ sender = Treasury
                 /\ now >= EndTime
                 /\ ~is_cancelled(stream)
                 /\ ~is_finalized(stream)
                 /\ ThresholdMet
        /\ r.err = "ok" => is_finalized(r.stream)
        /\ r.err # "ok"
             => /\ r.stream = stream /\ r.positions = positions /\ r.msgs = <<>>
                /\ r.err = (IF is_finalized(stream) THEN "StreamAlreadyFinalized"
                            ELSE IF is_cancelled(stream) THEN "StreamKillswitchActive"
                            ELSE IF sender # Treasury THEN "Unauthorized"
                            ELSE IF now < EndTime THEN "StreamNotEnded"
                            ELSE "ThresholdNotReached")

\* an ended stream with a threshold that is met: the treasury may finalize
\* it, the admin may not
C11_Witness ==
    /\ now >= EndTime
    /\ threshold # {}
    /\ stream.shares > 0
    /\ execute_finalize_stream(Treasury, NoAddr).err = "ok"
    /\ execute_finalize_stream(StreamAdmin, NoAddr).err = "Unauthorized"

\* the address the finalization pays: new_treasury if given
TreasuryOf(new_treasury) ==
    IF new_treasury = NoAddr THEN Treasury ELSE new_treasury

\* C12: a successful FinalizeStream with spent_in > 0 sends swap_fee =
\* floor(spent_in * exit_fee_percent) of the in denom to the fee collector
\* and spent_in - swap_fee to the treasury (new_treasury if given), spent_in
\* in all; and it refunds exactly out_remaining of the out denom to that
\* treasury, with a message of its own if out_remaining > 0.
C12_FinalizeSettlement ==
    \A new_treasury \in NewTreasuries :
        LET r == execute_finalize_stream(Treasury, new_treasury)
            spent_in == r.stream.spent_in
            swap_fee == (spent_in * ExitFeePercent) \div DECIMAL_FRACTIONAL
            treasury == TreasuryOf(new_treasury)
            bank == SelectSeq(r.msgs, LAMBDA m : m.denom \in {"in", "out"})
        IN (r.err = "ok" /\ spent_in > 0)
            => /\ SumSent(r.msgs, "in", {FeeCollector}) = swap_fee
               /\ SumSent(r.msgs, "in", {treasury}) = spent_in - swap_fee
               /\ SumSent(r.msgs, "in", AllAddrs) = spent_in
               /\ SumSent(r.msgs, "out", {treasury}) = r.stream.out_remaining
               /\ SumSent(r.msgs, "out", AllAddrs) = r.stream.out_remaining
               /\ Len(bank) = IF r.stream.out_remaining > 0 THEN 3 ELSE 2

\* an ended stream that spent in and kept out: everyone withdrew on the way
C12_Witness ==
    LET r == execute_finalize_stream(Treasury, "new_treasury") IN
    /\ r.err = "ok"
    /\ r.stream.spent_in > 0
    /\ r.stream.out_remaining > 0

\* C13: when FinalizeStream succeeds with spent_in = 0 the only message is
\* the refund of out_remaining to the treasury: no revenue, no fee, and no
\* pool creation or initial liquidity position even if create_pool is set.
C13_OnlyRefundWhenNothingSpent ==
    \A new_treasury \in NewTreasuries :
        LET r == execute_finalize_stream(Treasury, new_treasury) IN
        (r.err = "ok" /\ r.stream.spent_in = 0)
            => r.msgs = IF r.stream.out_remaining > 0
                        THEN << BankSend(TreasuryOf(new_treasury), "out",
                                         r.stream.out_remaining) >>
                        ELSE << >>

\* C14: a successful ExitStream syncs the position against the advanced
\* stream, takes its shares off stream.shares, removes it from the storage
\* and pays its owner exactly the synced purchased and no other out; an
\* ExitStream for an owner without a stored position fails, so the
\* purchased of a position is paid at most once.
C14_ExitPaysOnce ==
    \A sender \in PositionSenders, target \in Owners :
        LET r == execute_exit_stream(sender, target, NoSalt) IN
        /\ target \notin Stored(positions) => r.err # "ok"
        /\ r.err = "ok"
             => LET synced == update_position(Advanced, positions[target]) IN
                /\ synced.purchased
                     = positions[target].purchased
                       + SyncCredit(Advanced, positions[target])
                /\ r.positions = Remove(positions, target)
                /\ target \notin Stored(r.positions)
                /\ r.stream.shares = Advanced.shares - positions[target].shares
                /\ SumSent(r.msgs, "out", {target}) = synced.purchased
                /\ SumSent(r.msgs, "out", AllAddrs) = synced.purchased

\* alice has exited and been paid; bob can exit with a purchase to sync,
\* alice cannot exit again
C14_Witness ==
    /\ "alice" \notin Stored(positions)
    /\ out_paid > 0
    /\ "bob" \in Stored(positions)
    /\ execute_exit_stream("alice", "alice", NoSalt).err = "NotFound"
    /\ LET r == execute_exit_stream("bob", "bob", NoSalt) IN
       /\ r.err = "ok"
       /\ SumSent(r.msgs, "out", {"bob"}) > positions["bob"].purchased

C16_ThresholdExclusive ==
    /\ (threshold # {} /\ now >= EndTime
          /\ ~is_cancelled(stream) /\ ~is_finalized(stream))
         => IF ThresholdMet
            THEN execute_cancel_stream_with_threshold(StreamAdmin).err
                    = "ThresholdReached"
            ELSE /\ \A new_treasury \in NewTreasuries :
                       execute_finalize_stream(Treasury, new_treasury).err
                           = "ThresholdNotReached"
                 /\ \A sender \in PositionSenders, target \in Owners :
                       execute_exit_stream(sender, target, NoSalt).err
                           = "ThresholdNotReached"
                 /\ LET r == execute_cancel_stream_with_threshold(StreamAdmin) IN
                    r.err = "ok" /\ is_cancelled(r.stream)
    /\ is_finalized(stream)
         => /\ ~threshold_not_reached(stream)
            /\ execute_cancel_stream_with_threshold(StreamAdmin).err # "ok"
    /\ threshold_not_reached(stream) => out_paid = 0

\* an ended stream that spent in, less than its threshold, with a position
C16_Witness ==
    /\ threshold # {}
    /\ now >= EndTime
    /\ ~is_cancelled(stream)
    /\ Stored(positions) # {}
    /\ Advanced.spent_in > 0
    /\ ~ThresholdMet
    /\ execute_cancel_stream_with_threshold(StreamAdmin).err = "ok"

\* C17: in a Cancelled stream ExitCancelled by the owner or the operator of a
\* stored position succeeds, pays exactly in_balance + spent of the position
\* to its owner and removes the position; that amount is what was subscribed
\* to the position minus what was withdrawn from it, synced or not.
C17_ExitCancelledMakesWhole ==
    is_cancelled(stream) =>
        \A target \in Stored(positions), sender \in PositionSenders :
            (sender = target \/ sender = positions[target].operator) =>
                LET r == execute_exit_cancelled(sender, target)
                    total == positions[target].in_balance + positions[target].spent
                IN /\ r.err = "ok"
                   /\ r.msgs = << BankSend(target, "in", total) >>
                   /\ target \notin Stored(r.positions)
                   /\ total = net_in[target]

Accounting(s) == <<s.dist_index, s.out_remaining, s.in_supply, s.spent_in>>
\* the purchased and the spent of every stored position
PositionAccounts(p) ==
    [o \in Stored(p) |-> <<p[o].purchased, p[o].spent>>]

\* C19: on a Cancelled stream an UpdateStream and an UpdatePosition, at
\* whatever time, leave dist_index, out_remaining, in_supply and spent_in of
\* the stream and purchased and spent of every position as they were.
C19_CancelledIsFrozen ==
    stream.status = "Cancelled" =>
        /\ LET r == execute_update_stream IN
           r.err = "ok" =>
               /\ Accounting(r.stream) = Accounting(stream)
               /\ PositionAccounts(r.positions) = PositionAccounts(positions)
        /\ \A sender \in PositionSenders, target \in Owners :
              LET r == execute_update_position(sender, target) IN
              r.err = "ok" =>
                  /\ Accounting(r.stream) = Accounting(stream)
                  /\ PositionAccounts(r.positions) = PositionAccounts(positions)

\* what a step does to a stream that is not cancelled before or after it
C20_Step ==
    (stream.status # "Cancelled" /\ stream'.status # "Cancelled") =>
        /\ stream'.dist_index >= stream.dist_index
        /\ stream'.spent_in >= stream.spent_in
        /\ stream'.out_remaining <= stream.out_remaining
        /\ \A o \in Stored(positions') \cap Stored(positions) :
              /\ positions'[o].spent >= positions[o].spent
              /\ positions'[o].purchased >= positions[o].purchased
        /\ (stream'.in_supply + stream'.spent_in)
             - (stream.in_supply + stream.spent_in)
                \in {0, bank_in' - bank_in}
        /\ bank_in' >= bank_in
              => stream.in_supply - stream'.in_supply
                    <= stream'.spent_in - stream.spent_in

\* C20: on a stream that is not cancelled dist_index, spent_in and the spent
\* and purchased of every position never decrease and out_remaining never
\* increases; in_supply + spent_in changes only by the in that enters or
\* leaves the contract in the step, so that in a step that sends no in out
\* in_supply decreases by no more than spent_in grows.
C20_Monotone == [][C20_Step]_vars

\* a position synced twice: the stream has spent and released since the
\* first sync, which had credited the position already
C20_Witness ==
    /\ stream.status \in {"Active", "Ended", "Finalized"}
    /\ stream.spent_in > 0
    /\ stream.out_remaining < OutSupply
    /\ \E o \in Stored(positions) :
          /\ positions[o].spent > 0
          /\ positions[o].purchased > 0
          /\ positions[o].index < stream.dist_index

\* the times the host can still present: the block time never goes back
LaterTimes == now..MaxTime

\* C21: an advance is idempotent at a fixed time: from every reachable state
\* and for every time t from now on, before, within and after the window, a
\* second UpdateStream at t leaves the stream exactly as the first left it.
C21_AdvanceIdempotent ==
    /\ LET first == execute_update_stream IN
       /\ first.err = "ok"
       /\ update_stream(now, first.stream) = first.stream
    /\ \A t \in LaterTimes :
          update_stream(t, update_stream(t, stream)) = update_stream(t, stream)

\* the stream was advanced at now, within the window, and spent and released
\* a part; there are out and in left that a second advance could move
C21_Witness ==
    /\ StartTime < now /\ now < EndTime
    /\ stream.last_updated = now
    /\ stream.spent_in > 0
    /\ stream.in_supply > 0
    /\ stream.out_remaining > 0
    /\ stream.out_remaining < OutSupply

\* ------------------------------------------- the advance as a function
\* the longest window and the largest deposit of the streams drawn below
AdvanceLen == 4
AdvanceAmount == 3

\* a stream whose window ends at end_time, at the start time, right after
\* alice has subscribed amount as the first subscriber
InitAdvance ==
    \E end_time \in (StartTime + 1)..(StartTime + AdvanceLen),
       amount \in 1..AdvanceAmount :
        /\ now = StartTime
        /\ stream = [NewStream EXCEPT !.end_time = end_time,
                                      !.in_supply = amount,
                                      !.shares = amount,
                                      !.status = "Active"]
        /\ positions = Save(<< >>, "alice",
                            NewPosition("alice", amount, amount, 0, NoAddr))
        /\ threshold \in {{}, {ThresholdAmount}}
        /\ create_pool = {}
        /\ bank_in = amount
        /\ out_paid = 0
        /\ out_refunded = 0
        /\ positions_ever = 1
        /\ deposits = amount
        /\ net_in = [o \in Owners |-> IF o = "alice" THEN amount ELSE 0]
        /\ index_dust = 0
        /\ factory_params = DefaultParams
        /\ factory = NewFactory(1)
        /\ fee_collected = [c \in Collectors |-> 0]
        /\ vesting = << >>

\* time passes and anyone advances the stream
NextAdvance ==
    \/ Tick
    \/ UpdateStream

SpecAdvance == InitAdvance /\ [][NextAdvance]_vars

\* the times of an advance, up to after the longest window
AdvanceTimes == now..(StartTime + AdvanceLen + 1)

\* advance(t1) followed by advance(t2), and advance(t2) alone
Composed(t1, t2) == update_stream(t2, update_stream(t1, stream))
Single(t2) == update_stream(t2, stream)

Abs(x) == IF x < 0 THEN 0 - x ELSE x

\* the fields of a stream but out_remaining and what follows from the out
\* released: dist_index and the price of the last interval
InSide(s) ==
    [s EXCEPT !.out_remaining = 0, !.dist_index = 0,
              !.current_streamed_price = 0]

\* C22 as stated: for t1 <= t2 the two advances leave the same stream as
\* the single advance to t2, out_remaining within one unit (dist_index and
\* the price of the last interval, which follow the out released, are left
\* out of the comparison).
C22_Original ==
    \A t1 \in AdvanceTimes, t2 \in AdvanceTimes :
        t1 <= t2 =>
            LET c == Composed(t1, t2)
                s == Single(t2)
            IN /\ InSide(c) = InSide(s)
               /\ Abs(c.out_remaining - s.out_remaining) <= 1

\* C22 amended: for t1 <= t2 the two advances and the single advance leave
\* the same status, last_updated and shares and the same in_supply +
\* spent_in; when t2 is at or after the end they also leave the same
\* out_remaining, in_supply and spent_in.
C22_AdvanceComposes ==
    \A t1 \in AdvanceTimes, t2 \in AdvanceTimes :
        t1 <= t2 =>
            LET c == Composed(t1, t2)
                s == Single(t2)
            IN /\ c.status = s.status
               /\ c.last_updated = s.last_updated
               /\ c.shares = s.shares
               /\ c.in_supply + c.spent_in = s.in_supply + s.spent_in
               /\ t2 >= stream.end_time
                     => /\ c.out_remaining = s.out_remaining
                        /\ c.in_supply = s.in_supply
                        /\ c.spent_in = s.spent_in

\* a stream advanced once within a window of the longest length, with in
\* and out left for the advances to come
C22_Witness ==
    /\ stream.end_time = StartTime + AdvanceLen
    /\ stream.last_updated > StartTime
    /\ now < stream.end_time
    /\ stream.spent_in > 0
    /\ stream.in_supply > 0
    /\ stream.out_remaining > 0

\* ------------------------------------- two positions with one history
\* the out supply of the stream of the twins and the in the two may deposit
TwinOutSupply == 9
TwinMaxDeposits == 6

\* a stream created with an out supply of TwinOutSupply
InitTwins ==
    /\ now = 0
    /\ stream = [NewStream EXCEPT !.out_remaining = TwinOutSupply]
    /\ positions = << >>
    /\ threshold = {}
    /\ create_pool = {}
    /\ bank_in = 0
    /\ out_paid = 0
    /\ out_refunded = 0
    /\ positions_ever = 0
    /\ deposits = 0
    /\ net_in = [o \in Owners |-> 0]
    /\ index_dust = 0
    /\ factory_params = DefaultParams
    /\ factory = NewFactory(1)
    /\ fee_collected = [c \in Collectors |-> 0]
    /\ vesting = << >>

\* alice and bob have subscribed and withdrawn the same amounts so far
Level == net_in["alice"] = net_in["bob"]

\* time passes once bob has repeated what alice did
TwinTick == Level /\ Tick

\* alice subscribes for herself
TwinSubscribeLead ==
    \E amount \in 1..MaxAmount :
        /\ Level
        /\ deposits + 2 * amount <= TwinMaxDeposits
        /\ Commit("alice", amount,
                  execute_subscribe("alice", NoAddr, "alice", amount))

\* bob subscribes the amount alice has just subscribed, at the same time
TwinSubscribeFollow ==
    LET amount == net_in["alice"] - net_in["bob"] IN
    /\ amount > 0
    /\ Commit("bob", amount, execute_subscribe("bob", NoAddr, "bob", amount))

\* alice withdraws from her position
TwinWithdrawLead ==
    \E cap \in Caps :
        /\ Level
        /\ Commit(NoAddr, 0, execute_withdraw("alice", cap, "alice"))

\* bob withdraws the amount alice has just withdrawn, at the same time
TwinWithdrawFollow ==
    LET amount == net_in["bob"] - net_in["alice"] IN
    /\ amount > 0
    /\ Commit(NoAddr, 0, execute_withdraw("bob", {amount}, "bob"))

\* the two keep the same deposit history; each is synced, and the stream
\* advanced, whenever and as often as anyone likes
NextTwins ==
    \/ TwinTick
    \/ TwinSubscribeLead
    \/ TwinSubscribeFollow
    \/ TwinWithdrawLead
    \/ TwinWithdrawFollow
    \/ UpdateStream
    \/ UpdatePosition

SpecTwins == InitTwins /\ [][NextTwins]_vars

\* C23: two positions with the same deposit history (the same amounts
\* subscribed and withdrawn at the same times): after an advance to any time
\* from now on and a sync of both, their purchased differ by at most 1,
\* however often and in whatever order each has been synced before.
C23_Fairness ==
    (Level /\ Stored(positions) = Owners) =>
        \A t \in LaterTimes :
            LET s == update_stream(t, update_status(stream, t))
                a == positions["alice"]
                b == positions["bob"]
            IN (~update_position_fails(s, a) /\ ~update_position_fails(s, b))
                 => Abs(update_position(s, a).purchased
                        - update_position(s, b).purchased) <= 1

\* the sender is the owner or the current operator of the stored position
Authorized(sender, target) ==
    sender = target \/ sender = positions[target].operator

\* the result r of a call by sender on the position of target: refused with
\* nothing changed if the sender is not authorized, with Unauthorized where
\* the same call by the owner (result by_owner) goes through; and if it goes
\* through, no position but that of the target is created or changed
C24_Guarded(sender, target, r, by_owner) ==
    /\ (target \in Stored(positions) /\ ~Authorized(sender, target))
          => /\ r.err # "ok"
             /\ r.stream = stream /\ r.positions = positions /\ r.msgs = <<>>
             /\ by_owner.err = "ok" => r.err = "Unauthorized"
    /\ r.err = "ok"
          => \A o \in Stored(r.positions) \cup Stored(positions) :
                o # target
                   => o \in Stored(r.positions) /\ o \in Stored(positions)
                      /\ r.positions[o] = positions[o]

C25_Withdraw ==
    \A sender \in PositionSenders, target \in Stored(positions), cap \in Caps :
        LET r == execute_withdraw(sender, cap, target)
            s2 == Advanced
            position == positions[target]
        IN (/\ subscription_open(update_status(stream, now))
            /\ Authorized(sender, target)
            /\ ~update_position_fails(s2, position))
           => LET synced == update_position(s2, position)
                  amount == IF cap = {} THEN synced.in_balance
                            ELSE CHOOSE c \in cap : TRUE
              IN /\ amount > synced.in_balance
                       => r.err = "WithdrawAmountExceedsBalance"
                 /\ amount = 0 => r.err = "InvalidWithdrawAmount"
                 /\ r.err # "ok"
                       => /\ r.stream = stream
                          /\ r.positions = positions
                          /\ r.msgs = <<>>
                 /\ r.err = "ok"
                       => /\ 0 < amount /\ amount <= synced.in_balance
                          /\ r.stream.in_supply = s2.in_supply - amount
                          /\ r.stream.spent_in = s2.spent_in
                          /\ r.stream.dist_index = s2.dist_index
                          /\ r.positions[target].in_balance
                                = synced.in_balance - amount
                          /\ r.positions[target].purchased = synced.purchased
                          /\ r.positions[target].spent = synced.spent
                          /\ r.msgs = << BankSend(target, "in", amount) >>
                          /\ synced.shares - r.positions[target].shares
                                = s2.shares - r.stream.shares
                          /\ amount = synced.in_balance
                                => /\ r.positions[target].in_balance = 0
                                   /\ r.positions[target].shares = 0

\* alice's position, which has an operator, after the withdrawal of its
\* whole in_balance, the stream having spent a part of her deposit before
C25_Witness ==
    /\ "alice" \in Stored(positions)
    /\ positions["alice"].operator = Operator
    /\ positions["alice"].shares = 0
    /\ positions["alice"].in_balance = 0
    /\ positions["alice"].spent > 0
    /\ positions["alice"].purchased > 0
    /\ net_in["alice"] = positions["alice"].spent

\* ------------------------------------------------------------ queries
\* query_position
query_position(owner) ==
    IF owner \notin Stored(positions)
    THEN [err |-> "NotFound", position |-> << >>]
    ELSE [err |-> "ok", position |-> positions[owner]]

\* query_average_price: Decimal::from_ratio panics on a zero denominator
query_average_price ==
    IF stream.out_remaining > OutSupply
    THEN [err |-> "Overflow", average_price |-> 0]
    ELSE LET total_purchased == OutSupply - stream.out_remaining IN
         IF total_purchased = 0
         THEN [err |-> "DivideByZero", average_price |-> 0]
         ELSE [err |-> "ok",
               average_price |->
                   (stream.spent_in * DECIMAL_FRACTIONAL) \div total_purchased]

\* query_last_streamed_price
query_last_streamed_price ==
    [err |-> "ok", current_streamed_price |-> stream.current_streamed_price]

\* C26: a query whose key exists never fails, in any reachable state:
\* Position of a stored owner, LastStreamedPrice, and AveragePrice, which
\* returns spent_in / (out supply - out_remaining), also before any out has
\* been released.
C26_QueriesNeverFail ==
    /\ \A owner \in Stored(positions) : query_position(owner).err = "ok"
    /\ query_last_streamed_price.err = "ok"
    /\ query_average_price.err = "ok"
    /\ query_average_price.average_price * (OutSupply - stream.out_remaining)
          <= stream.spent_in * DECIMAL_FRACTIONAL

\* ============================================================ the factory
\* Option<T>: {} is None, {v} is Some(v)
Some(opt) == CHOOSE v \in opt : TRUE
unwrap_or(opt, default) == IF opt = {} THEN default ELSE Some(opt)

\* the result of a handler of the factory
FactoryRes(err, f) == [err |-> err, factory |-> f]
FactoryFail(err) == FactoryRes(err, factory)

\* info.sender == protocol_admin
is_protocol_admin(sender) == sender = ProtocolAdmin

\* an exit fee percent that is never refused
exit_fee_percent_unchecked(exit_fee_percent) == FALSE

\* the exit fee percent can not be equal to or greater than 1
invalid_exit_fee_percent(exit_fee_percent) ==
    \E e \in exit_fee_percent : e >= DECIMAL_FRACTIONAL

\* UpdateParams; msg holds one Option per parameter
execute_update_params(sender, msg) ==
    LET cfg == factory.params IN
    IF ~is_protocol_admin(sender) THEN FactoryFail("Unauthorized")
    ELSE IF \E fee \in msg.stream_creation_fee : fee = 0
    THEN FactoryFail("InvalidStreamCreationFee")
    ELSE IF invalid_exit_fee_percent(msg.exit_fee_percent)
    THEN FactoryFail("InvalidExitFeePercent")
    ELSE FactoryRes("ok", [factory EXCEPT !.params = [
        min_stream_blocks |->
            unwrap_or(msg.min_stream_blocks, cfg.min_stream_blocks),
        min_blocks_until_start_block |->
            unwrap_or(msg.min_blocks_until_start_block,
                      cfg.min_blocks_until_start_block),
        stream_creation_fee |->
            unwrap_or(msg.stream_creation_fee, cfg.stream_creation_fee),
        accepted_in_denoms |->
            unwrap_or(msg.accepted_in_denoms, cfg.accepted_in_denoms),
        fee_collector |-> unwrap_or(msg.fee_collector, cfg.fee_collector),
        exit_fee_percent |->
            unwrap_or(msg.exit_fee_percent, cfg.exit_fee_percent) ]])

\* a freeze that does nothing
freeze_ignored(f) == f

\* the factory once frozen
frozen_factory(f) == [f EXCEPT !.frozen = TRUE]

\* Freeze
execute_freeze(sender) ==
    IF ~is_protocol_admin(sender) THEN FactoryFail("Unauthorized")
    ELSE FactoryRes("ok", frozen_factory(factory))

\* the Freezestate query
query_freeze_state == factory.frozen

\* the Params query
query_factory_params == factory.params

\* CreateStream; the stream is instantiated with start_time StartTime, and
\* its instantiate refuses a start time that has passed
execute_create_stream(sender) ==
    IF factory.frozen THEN FactoryFail("ContractIsFrozen")
    ELSE IF now > StartTime THEN FactoryFail("StreamInvalidStartTime")
    ELSE FactoryRes("ok", [factory EXCEPT !.last_stream_id = @ + 1])

\* ------------------------------------------- the factory and its stream
\* the streams the factory creates at most
MaxStreams == 2

\* the parameters UpdateParams may carry, each None or Some
StreamCreationFees == {{}, {0}, {2}}
ExitFeePercents ==
    {{}, {NewExitFeePercent}, {DECIMAL_FRACTIONAL},
     {DECIMAL_FRACTIONAL + NewExitFeePercent}}
FeeCollectors == {{}, {NewFeeCollector}}
AcceptedInDenoms == {{}, {"denom1"}}
MinStreamBlocks == {{}, {100}}
MinBlocksUntilStartBlock == {{}, {100}}
\* the parameters a message supplies, and how many one message supplies at most
Supplied(msg) == {field \in DOMAIN msg : msg[field] # {}}
MaxSupplied == 2
UpdateParamsMsgs ==
    {msg \in [stream_creation_fee : StreamCreationFees,
              exit_fee_percent : ExitFeePercents,
              fee_collector : FeeCollectors,
              accepted_in_denoms : AcceptedInDenoms,
              min_stream_blocks : MinStreamBlocks,
              min_blocks_until_start_block : MinBlocksUntilStartBlock] :
        Cardinality(Supplied(msg)) <= MaxSupplied}
FactorySenders == {ProtocolAdmin, "alice"}

\* FACTORY_PARAMS before the stream is instantiated: nothing is saved
NoParams == [DefaultParams EXCEPT !.fee_collector = NoAddr,
                                  !.exit_fee_percent = 0]

\* the stream this model follows is the first the factory creates
StreamExists == factory.last_stream_id >= 1

\* the factory right after its instantiation, no stream created yet
InitFactory ==
    /\ now = 0
    /\ stream = NewStream
    /\ positions = << >>
    /\ threshold = {}
    /\ create_pool = {}
    /\ bank_in = 0
    /\ out_paid = 0
    /\ out_refunded = 0
    /\ positions_ever = 0
    /\ deposits = 0
    /\ net_in = [o \in Owners |-> 0]
    /\ index_dust = 0
    /\ factory_params = NoParams
    /\ factory = NewFactory(0)
    /\ fee_collected = [c \in Collectors |-> 0]
    /\ vesting = << >>

\* the host commits the result of a handler of the factory
FactoryCommit(r) ==
    /\ r.err = "ok"
    /\ factory' = r.factory
    /\ UNCHANGED <<now, stream, positions, threshold, create_pool, bank_in,
                   out_paid, out_refunded, positions_ever, deposits,
                   net_in, index_dust, fee_collected, vesting>>

UpdateParams ==
    \E sender \in FactorySenders, msg \in UpdateParamsMsgs :
        /\ FactoryCommit(execute_update_params(sender, msg))
        /\ UNCHANGED factory_params

Freeze ==
    \E sender \in FactorySenders :
        /\ FactoryCommit(execute_freeze(sender))
        /\ UNCHANGED factory_params

\* the factory instantiates a stream, which saves the Params it queries
\* from the factory
CreateStream ==
    \E sender \in FactorySenders :
        LET r == execute_create_stream(sender) IN
        /\ r.err = "ok" => r.factory.last_stream_id <= MaxStreams
        /\ FactoryCommit(r)
        /\ factory_params' = IF StreamExists THEN factory_params
                             ELSE query_factory_params

\* the creator's stream takes a subscription
FactorySubscribe ==
    /\ StreamExists
    /\ deposits + MaxAmount <= MaxDeposits
    /\ Commit("alice", MaxAmount,
              execute_subscribe("alice", NoAddr, "alice", MaxAmount))

FactoryFinalizeStream == StreamExists /\ FinalizeStream

NextFactory ==
    \/ Tick
    \/ UpdateParams
    \/ Freeze
    \/ CreateStream
    \/ FactorySubscribe
    \/ FactoryFinalizeStream

SpecFactory == InitFactory /\ [][NextFactory]_vars

\* the fee collector and the exit fee percent the factory holds now both
\* differ from what the stream saved
ParamsUpdatedSince ==
    /\ StreamExists
    /\ query_factory_params.fee_collector # factory_params.fee_collector
    /\ query_factory_params.exit_fee_percent # factory_params.exit_fee_percent

\* the swap fee of spent_in at an exit fee percent
FeeAt(spent_in, exit_fee_percent) ==
    (spent_in * exit_fee_percent) \div DECIMAL_FRACTIONAL

\* C27: once the stream is instantiated no step changes the FactoryParams it
\* saved, whatever the factory's parameters become, and the step that
\* finalizes the stream sends the fee collector of the saved parameters the
\* saved exit fee percent of spent_in, and sends the other collector nothing.
C27_Step ==
    /\ StreamExists => factory_params' = factory_params
    /\ (~is_finalized(stream) /\ is_finalized(stream')) =>
          fee_collected' =
            [c \in Collectors |->
               fee_collected[c]
               + (IF c = factory_params.fee_collector
                  THEN FeeAt(stream'.spent_in, factory_params.exit_fee_percent)
                  ELSE 0)]
C27_SavedParamsRule == [][C27_Step]_vars

\* the stream is finalized, its fee went to the saved collector, and by now
\* the factory names another collector and a percent that gives another fee
C27_Witness ==
    /\ ParamsUpdatedSince
    /\ is_finalized(stream)
    /\ fee_collected[factory_params.fee_collector] > 0
    /\ fee_collected[factory_params.fee_collector]
         # FeeAt(stream.spent_in, query_factory_params.exit_fee_percent)

\* C28: the factory starts unfrozen; while it is unfrozen a CreateStream
\* whose start time has not passed succeeds; Freeze from a sender other than
\* the admin fails with Unauthorized and changes nothing; Freeze from the
\* admin succeeds and the freeze-state query then returns true; once the query
\* returns true it does so for ever, and every CreateStream fails with
\* ContractIsFrozen.
C28_Now ==
    /\ \A sender \in FactorySenders :
          LET r == execute_freeze(sender) IN
          IF sender = ProtocolAdmin
          THEN r.err = "ok" /\ r.factory.frozen
          ELSE r.err = "Unauthorized" /\ r.factory = factory
    /\ \A sender \in FactorySenders :
          LET r == execute_create_stream(sender) IN
          IF query_freeze_state
          THEN r.err = "ContractIsFrozen" /\ r.factory = factory
          ELSE now <= StartTime => r.err = "ok"
C28_Step ==
    /\ query_freeze_state => factory'.frozen
    /\ factory'.last_stream_id # factory.last_stream_id => ~query_freeze_state
C28_Freeze == ~query_freeze_state /\ []C28_Now /\ [][C28_Step]_vars

\* the factory has created a stream and has been frozen since
C28_Witness ==
    /\ query_freeze_state
    /\ factory.last_stream_id >= 1
    /\ now <= StartTime

\* what UpdateParams is claimed to do, refused being the error of an admin's
\* call that supplies an exit fee percent of 100% or more
C29_Rule(sender, msg, r, refused) ==
    LET too_high == \E e \in msg.exit_fee_percent : e >= DECIMAL_FRACTIONAL IN
    /\ sender # ProtocolAdmin => r.err = "Unauthorized"
    /\ (sender = ProtocolAdmin /\ too_high) => r.err = refused
    /\ r.err # "ok" => r.factory = factory
    /\ r.err = "ok" =>
          /\ \A field \in DOMAIN msg :
                r.factory.params[field] =
                    IF msg[field] = {} THEN factory.params[field]
                    ELSE Some(msg[field])
          /\ r.factory.frozen = factory.frozen
          /\ r.factory.last_stream_id = factory.last_stream_id

\* C29 as stated: UpdateParams from a sender other than the admin fails with
\* Unauthorized, from the admin with an exit_fee_percent of 100% or more it
\* fails with InvalidExitFeePercent, a failed call leaves the parameters as
\* they were, and a successful call sets exactly the supplied fields.
C29_Original ==
    \A sender \in FactorySenders, msg \in UpdateParamsMsgs :
        C29_Rule(sender, msg, execute_update_params(sender, msg),
                 "InvalidExitFeePercent")

\* C29 amended: as stated, except that an admin's call with an
\* exit_fee_percent of 100% or more that also supplies a stream_creation_fee
\* of zero fails with InvalidStreamCreationFee, the check that comes first;
\* and an admin's call that supplies neither succeeds.
C29_UpdateParams ==
    \A sender \in FactorySenders, msg \in UpdateParamsMsgs :
        LET r == execute_update_params(sender, msg)
            zero_fee == \E fee \in msg.stream_creation_fee : fee = 0
            too_high == \E e \in msg.exit_fee_percent : e >= DECIMAL_FRACTIONAL
        IN
        /\ C29_Rule(sender, msg, r,
                    IF zero_fee THEN "InvalidStreamCreationFee"
                    ELSE "InvalidExitFeePercent")
        /\ (sender = ProtocolAdmin /\ zero_fee)
              => r.err = "InvalidStreamCreationFee"
        /\ (sender = ProtocolAdmin /\ ~zero_fee /\ ~too_high) => r.err = "ok"

\* UpdateParams has set the exit fee percent and the fee collector and has
\* left the creation fee it was not given
C29_Witness ==
    /\ query_factory_params.exit_fee_percent = NewExitFeePercent
    /\ query_factory_params.fee_collector = NewFeeCollector
    /\ query_factory_params.stream_creation_fee = DefaultParams.stream_creation_fee
    /\ query_factory_params.min_stream_blocks = DefaultParams.min_stream_blocks

\* ================================================== the staggered entry
\* one stream with an out supply of 1000 over a window of 100 and no exit
\* fee; alice subscribes 100 at the start of the window and bob subscribes
\* 100 when half of it has passed
Staggered == [out_supply |-> 1000, window |-> 100, fee |-> 0,
              in_amount |-> 100, entry |-> 50]
StaggeredEnd == StartTime + Staggered.window

InitStaggered ==
    /\ now = 0
    /\ stream = [NewStream EXCEPT !.end_time = StaggeredEnd,
                                  !.out_remaining = Staggered.out_supply]
    /\ positions = << >>
    /\ threshold = {}
    /\ create_pool = {}
    /\ bank_in = 0
    /\ out_paid = 0
    /\ out_refunded = 0
    /\ positions_ever = 0
    /\ deposits = 0
    /\ net_in = [o \in Owners |-> 0]
    /\ index_dust = 0
    /\ factory_params = [DefaultParams EXCEPT !.exit_fee_percent = Staggered.fee]
    /\ factory = NewFactory(1)
    /\ fee_collected = [c \in Collectors |-> 0]
    /\ vesting = << >>

\* the block time moves on, until after the end of the window
StaggeredTick ==
    /\ now <= StaggeredEnd
    /\ now' = now + 1
    /\ UNCHANGED <<stream, positions, threshold, create_pool, bank_in,
                   out_paid, out_refunded, positions_ever, deposits,
                   net_in, index_dust, factory_params, factory,
                   fee_collected, vesting>>

\* alice subscribes at the start of the window
StaggeredSubscribeFirst ==
    /\ now = StartTime
    /\ deposits = 0
    /\ Commit("alice", Staggered.in_amount,
              execute_subscribe("alice", NoAddr, "alice", Staggered.in_amount))

\* bob subscribes half way, after alice
StaggeredSubscribeSecond ==
    /\ now = StartTime + Staggered.entry
    /\ deposits = Staggered.in_amount
    /\ Commit("bob", Staggered.in_amount,
              execute_subscribe("bob", NoAddr, "bob", Staggered.in_amount))

\* an owner exits
StaggeredExit ==
    \E owner \in Owners :
        Commit(NoAddr, 0, execute_exit_stream(owner, owner, NoSalt))

NextStaggered ==
    \/ StaggeredTick
    \/ StaggeredSubscribeFirst
    \/ StaggeredSubscribeSecond
    \/ StaggeredExit

SpecStaggered == InitStaggered /\ [][NextStaggered]_vars

\* both have subscribed and the window is over
StaggeredOver ==
    /\ deposits = 2 * Staggered.in_amount
    /\ now >= StaggeredEnd

\* the out the exit of owner pays to owner
ExitPays(owner) ==
    SumSent(execute_exit_stream(owner, owner, NoSalt).msgs, "out", {owner})

\* the part of the window that has passed at bob's entry is a Decimal; it is
\* one in the program, whose Decimal keeps 18 places
EntryIsDecimal ==
    (Staggered.entry * DECIMAL_FRACTIONAL) % Staggered.window = 0

\* at the exit of each owner still in, alice is paid a and bob b, within 1
StaggeredPays(a, b) ==
    (StaggeredOver /\ EntryIsDecimal) =>
        /\ "alice" \in Stored(positions) => Abs(ExitPays("alice") - a) <= 1
        /\ "bob" \in Stored(positions) => Abs(ExitPays("bob") - b) <= 1

\* C30 as stated: after the window alice's exit pays 750 and bob's 250, each
\* within 1 unit.
C30_Original == StaggeredPays(750, 250)

\* C30 amended: after the window alice's exit pays 667 and bob's 333, each
\* within 1 unit, whoever exits first; together they are paid the out
\* supply within 1 unit.
C30_StaggeredEntry ==
    /\ StaggeredPays(667, 333)
    /\ (StaggeredOver /\ EntryIsDecimal /\ AllExited) =>
          Abs(out_paid - Staggered.out_supply) <= 1

\* both have exited after the window
C30_Witness ==
    /\ StaggeredOver
    /\ AllExited
    /\ positions_ever = 2
    /\ out_paid > 0

\* ================================================ the withdrawal half way
\* the stream of the staggered entry with alice as its sole subscriber: she
\* subscribes 100 at the start of the window and withdraws 50 when half of
\* it has passed
MidWithdrawAmount == Staggered.in_amount \div 2

MidWithdraw ==
    /\ now = StartTime + Staggered.entry
    /\ net_in["alice"] = Staggered.in_amount
    /\ Commit(NoAddr, 0,
              execute_withdraw("alice", {MidWithdrawAmount}, "alice"))

NextMidWithdraw ==
    \/ StaggeredTick
    \/ StaggeredSubscribeFirst
    \/ MidWithdraw
    \/ StaggeredExit

SpecMidWithdraw == InitStaggered /\ [][NextMidWithdraw]_vars

\* alice has subscribed and withdrawn, and the window is over
MidWithdrawOver ==
    /\ "alice" \in Stored(positions)
    /\ net_in["alice"] = Staggered.in_amount - MidWithdrawAmount
    /\ now >= StaggeredEnd
    /\ EntryIsDecimal

\* C31 as stated: alice's exit after the window pays her the whole out
\* supply, and the stream's spent_in is the 50 she did not withdraw.
C31_Original ==
    MidWithdrawOver =>
        /\ ExitPays("alice") = Staggered.out_supply
        /\ execute_exit_stream("alice", "alice", NoSalt).stream.spent_in
             = Staggered.in_amount - MidWithdrawAmount

\* C31 amended: the 50 alice withdraws are all the input she has left, so the
\* withdrawal burns all her shares and the distribution stops: her exit after
\* the window pays the 500 of the first half, spent_in is 50, and the other
\* 500 stay in out_remaining.
C31_MidWithdraw ==
    MidWithdrawOver =>
        LET r == execute_exit_stream("alice", "alice", NoSalt) IN
        /\ r.err = "ok"
        /\ ExitPays("alice") = Staggered.out_supply \div 2
        /\ r.stream.spent_in = Staggered.in_amount - MidWithdrawAmount
        /\ r.stream.out_remaining = Staggered.out_supply \div 2
        /\ r.stream.in_supply = 0

\* alice has exited after the window, paid for the first half only
C31_Witness ==
    /\ now >= StaggeredEnd
    /\ AllExited
    /\ positions_ever = 1
    /\ deposits = Staggered.in_amount
    /\ bank_in = Staggered.in_amount - MidWithdrawAmount
    /\ out_paid = Staggered.out_supply \div 2
    /\ stream.out_remaining = Staggered.out_supply \div 2

\* ================================================= the exit with vesting
\* a stream instantiated with or without vesting, no threshold, no pool
InitVesting ==
    /\ now = 0
    /\ stream \in {NewStream, [NewStream EXCEPT !.vesting = {VestingMsg}]}
    /\ positions = << >>
    /\ threshold = {}
    /\ create_pool = {}
    /\ bank_in = 0
    /\ out_paid = 0
    /\ out_refunded = 0
    /\ positions_ever = 0
    /\ deposits = 0
    /\ net_in = [o \in Owners |-> 0]
    /\ index_dust = 0
    /\ factory_params = DefaultParams
    /\ factory = NewFactory(1)
    /\ fee_collected = [c \in Collectors |-> 0]
    /\ vesting = << >>

NextVesting ==
    \/ Tick
    \/ Subscribe
    \/ UpdateStream
    \/ ExitStream

SpecVesting == InitVesting /\ [][NextVesting]_vars

IsInstantiate2(m) == "msg" \in DOMAIN m /\ m.msg = "instantiate2"
IsOutTransfer(m) == "msg" \notin DOMAIN m /\ m.denom = "out"

\* how many Instantiate2 messages, and how many transfers of out, msgs holds
Instantiations(msgs) ==
    Cardinality({i \in 1..Len(msgs) : IsInstantiate2(msgs[i])})
OutTransfers(msgs) ==
    Cardinality({i \in 1..Len(msgs) : IsOutTransfer(msgs[i])})

\* C32: a successful ExitStream of a stream with vesting emits no transfer of
\* out and exactly one Instantiate2, to the address predicted from the salt,
\* with total and funds the purchased out of the synced position, start_time
\* the end of the stream and recipient the owner, and saves that address under
\* the owner in VESTING; on a stream without vesting it emits exactly one
\* transfer of out, of the purchased amount to the owner, no Instantiate2, and
\* leaves VESTING as it was.
C32_ExitChannel ==
    \A sender \in PositionSenders, target \in Owners,
       salt \in {NoSalt} \cup {{x} : x \in Salts} :
        LET r == execute_exit_stream(sender, target, salt) IN
        r.err = "ok" =>
            LET purchased ==
                    update_position(update_stream(now, update_status(stream, now)),
                                    positions[target]).purchased
                instantiations == Instantiations(r.msgs)
                transfers == OutTransfers(r.msgs)
            IN
            IF stream.vesting # {}
            THEN /\ transfers = 0
                 /\ instantiations = 1
                 /\ \E x \in salt :
                      LET m == r.msgs[1] IN
                      /\ IsInstantiate2(m)
                      /\ m.to = instantiate2_address(x)
                      /\ m.salt = x
                      /\ m.denom = "out" /\ m.amount = purchased
                      /\ m.vesting.total = purchased
                      /\ m.vesting.start_time = {stream.end_time}
                      /\ m.vesting.recipient = target
                      /\ r.vesting = Save(vesting, target, instantiate2_address(x))
            ELSE /\ instantiations = 0
                 /\ transfers = 1
                 /\ r.msgs[1] = BankSend(target, "out", purchased)
                 /\ r.vesting = vesting

\* both owners have exited a stream with vesting, and each has a vesting
\* contract of their own, funded with purchased out
C32_Witness ==
    /\ stream.vesting # {}
    /\ AllExited
    /\ DOMAIN vesting = Owners
    /\ vesting["alice"] # vesting["bob"]
    /\ out_paid > 0

\* ====================================================== the pool's input
\* C33: when create_pool is set, the input paired into the initial liquidity
\* position of a successful FinalizeStream is
\* floor(out_amount_clp * spent_in / out_asset.amount).
C33_PoolInput ==
    \A new_treasury \in NewTreasuries :
        LET r == execute_finalize_stream(Treasury, new_treasury) IN
        (r.err = "ok" /\ create_pool # {}) =>
            \A out_amount_clp \in create_pool :
                \E i \in 1..Len(r.msgs) :
                    /\ "msg" \in DOMAIN r.msgs[i]
                    /\ r.msgs[i].msg = "create_position"
                    /\ r.msgs[i].out_amount = out_amount_clp
                    /\ r.msgs[i].in_amount =
                         (out_amount_clp * r.stream.spent_in) \div OutSupply

\* ===================================================== the share rounding
\* a stream whose window is one longer than StreamLen, and subscriptions of
\* up to RoundingAmount each and RoundingDeposits in all
RoundingAmount == 3
RoundingDeposits == 6
RoundingCaps == {{}} \cup {{c} : c \in 1..RoundingAmount}

InitRounding ==
    /\ now = 0
    /\ stream = [NewStream EXCEPT !.end_time = MaxTime]
    /\ positions = << >>
    /\ threshold = {}
    /\ create_pool = {}
    /\ bank_in = 0
    /\ out_paid = 0
    /\ out_refunded = 0
    /\ positions_ever = 0
    /\ deposits = 0
    /\ net_in = [o \in Owners |-> 0]
    /\ index_dust = 0
    /\ factory_params = DefaultParams
    /\ factory = NewFactory(1)
    /\ fee_collected = [c \in Collectors |-> 0]
    /\ vesting = << >>

RoundingSubscribe ==
    \E owner \in Owners, amount \in 1..RoundingAmount :
        /\ deposits + amount <= RoundingDeposits
        /\ Commit(owner, amount,
                  execute_subscribe(owner, NoAddr, owner, amount))

RoundingWithdraw ==
    \E owner \in Owners, cap \in RoundingCaps :
        Commit(NoAddr, 0, execute_withdraw(owner, cap, owner))

NextRounding ==
    \/ Tick
    \/ RoundingSubscribe
    \/ RoundingWithdraw

SpecRounding == InitRounding /\ [][NextRounding]_vars

\* the input a position of shares shares is entitled to in the stream s
Entitlement(s, shares) ==
    IF s.shares = 0 THEN 0 ELSE (s.in_supply * shares) \div s.shares

\* no position other than target is entitled to less in r.stream than in s
OthersKeep(s, r, target) ==
    \A q \in Stored(positions) \ {target} :
        Entitlement(r.stream, positions[q].shares)
            >= Entitlement(s, positions[q].shares)

\* a successful Subscribe takes no entitlement from another position
SubscribeKeeps ==
    \A sender \in PositionSenders, target \in Owners,
       amount \in 0..RoundingAmount :
        LET r == execute_subscribe(sender, NoAddr, target, amount) IN
        r.err = "ok" => OthersKeep(Advanced, r, target)

\* a successful partial Withdraw takes no entitlement from another position
WithdrawKeeps ==
    \A sender \in PositionSenders, target \in Owners, cap \in RoundingCaps :
        LET r == execute_withdraw(sender, cap, target) IN
        (r.err = "ok" /\ r.positions[target].in_balance > 0)
            => OthersKeep(Advanced, r, target)

\* after a successful partial Withdraw the in_balance of the withdrawer is
\* no more than the entitlement of the shares the position keeps
WithdrawerCovered ==
    \A sender \in PositionSenders, target \in Owners, cap \in RoundingCaps :
        LET r == execute_withdraw(sender, cap, target) IN
        (r.err = "ok" /\ r.positions[target].in_balance > 0)
            => r.positions[target].in_balance
                 <= Entitlement(r.stream, r.positions[target].shares)

\* after a successful partial Withdraw the in_balance of the withdrawer is
\* no less than the entitlement of the shares the position keeps
WithdrawerBacked ==
    \A sender \in PositionSenders, target \in Owners, cap \in RoundingCaps :
        LET r == execute_withdraw(sender, cap, target) IN
        (r.err = "ok" /\ r.positions[target].in_balance > 0)
            => r.positions[target].in_balance
                 >= Entitlement(r.stream, r.positions[target].shares)

\* C34 as stated: neither a Subscribe nor a partial Withdraw of one position
\* lowers the entitlement floor(in_supply * q.shares / shares) of another
\* position q, and a partial withdrawer is left with an in_balance that is at
\* most the entitlement of the shares it keeps.
C34_Original ==
    /\ SubscribeKeeps
    /\ WithdrawKeeps
    /\ WithdrawerCovered

\* C34: neither a Subscribe nor a partial Withdraw of one position lowers the
\* entitlement floor(in_supply * q.shares / shares) of another position q, and
\* a partial withdrawer is left with an in_balance that is at least (not at
\* most) the entitlement of the shares it keeps: the rounded-up burn is paid
\* by the withdrawer.
C34_RoundingHurtsNobody ==
    /\ SubscribeKeeps
    /\ WithdrawKeeps
    /\ WithdrawerBacked

\* two positions hold shares of a pool that is partly spent, and a partial
\* Withdraw of one of them burns a rounded-up number of shares
C34_Witness ==
    /\ Cardinality(Stored(positions)) = 2
    /\ Advanced.in_supply < Advanced.shares
    /\ \E target \in Owners, cap \in RoundingCaps :
        LET r == execute_withdraw(target, cap, target) IN
        /\ r.err = "ok"
        /\ r.positions[target].in_balance > 0
        /\ r.positions[target].in_balance
             > Entitlement(r.stream, r.positions[target].shares)

\* ===================================================== the share formula

\* the shares the documentation gives for amount_in tokens
documented_shares(s, amount_in, round_up) ==
    IF s.shares = 0 \/ s.in_supply = 0 THEN amount_in
    ELSE LET product == s.shares * amount_in IN
         IF round_up /\ product % s.in_supply # 0
         THEN product \div s.in_supply + 1
         ELSE product \div s.in_supply

\* compute_shares_amount returns the documented shares wherever it returns
SharesAsDocumented ==
    \A amount_in \in 0..RoundingAmount, round_up \in BOOLEAN :
        ~ComputeSharesPanics(Advanced, amount_in)
            => compute_shares_amount(Advanced, amount_in, round_up)
                 = documented_shares(Advanced, amount_in, round_up)

\* compute_shares_amount returns for every amount
SharesAlwaysReturn ==
    \A amount_in \in 0..RoundingAmount :
        ~ComputeSharesPanics(Advanced, amount_in)

\* no Subscribe and no Withdraw divides by an in_supply of zero
NoDivisionByZero ==
    /\ \A sender \in PositionSenders, target \in Owners,
          amount \in 0..RoundingAmount :
           execute_subscribe(sender, NoAddr, target, amount).err
               # "DivideByZero"
    /\ \A sender \in PositionSenders, target \in Owners,
          cap \in RoundingCaps :
           execute_withdraw(sender, cap, target).err # "DivideByZero"

\* C35 as stated: compute_shares(a, round) returns a when shares = 0 or
\* in_supply = 0, and otherwise shares * a / in_supply rounded up or down as
\* asked; no Subscribe or Withdraw evaluates it with shares > 0 and
\* in_supply = 0.
C35_Original ==
    /\ SharesAlwaysReturn
    /\ SharesAsDocumented
    /\ NoDivisionByZero

\* C35: compute_shares(a, round) returns a when shares = 0 or a = 0, and
\* otherwise shares * a / in_supply rounded up or down as asked, which has no
\* value when in_supply = 0; no Subscribe or Withdraw evaluates it with
\* shares > 0 and in_supply = 0.
C35_ComputeShares ==
    /\ SharesAsDocumented
    /\ NoDivisionByZero

\* a partial Withdraw evaluates the rounded-up division with a remainder
C35_Witness ==
    /\ 0 < Advanced.in_supply
    /\ Advanced.in_supply < Advanced.shares
    /\ \E target \in Owners, amount \in 1..RoundingAmount :
        /\ execute_withdraw(target, {amount}, target).err = "ok"
        /\ execute_withdraw(target, {amount}, target)
               .positions[target].in_balance > 0
        /\ (Advanced.shares * amount) % Advanced.in_supply # 0

\* ===================================================== instantiate

\* the times and amounts a CreateStreamMsg is drawn from
InstantiateMaxTime == 3
InstantiateTimes == 0..InstantiateMaxTime
InstantiateAmounts == 0..1
Denoms == {"in", "out"}

CreateStreamMsgs ==
    [ bootstraping_start_time : InstantiateTimes,
      start_time : InstantiateTimes,
      end_time : InstantiateTimes,
      in_denom : Denoms,
      out_asset : [denom : {"out"}, amount : InstantiateAmounts] ]

\* Stream::new as instantiate calls it: last_updated is the start time
new_stream(msg) ==
    [ bootstraping_start_time |-> msg.bootstraping_start_time,
      start_time |-> msg.start_time,
      end_time |-> msg.end_time,
      last_updated |-> msg.start_time,
      in_denom |-> msg.in_denom,
      out_asset |-> msg.out_asset,
      out_remaining |-> msg.out_asset.amount,
      dist_index |-> 0,
      in_supply |-> 0,
      spent_in |-> 0,
      shares |-> 0,
      status |-> "Waiting" ]

\* instantiate: the error it answers, and the stream it saves if any
instantiate(now_time, msg) ==
    IF msg.start_time > msg.end_time
    THEN [err |-> "StreamInvalidEndTime", stream |-> {}]
    ELSE IF now_time > msg.start_time
    THEN [err |-> "StreamInvalidStartTime", stream |-> {}]
    ELSE IF msg.in_denom = msg.out_asset.denom
    THEN [err |-> "SameDenomOnEachSide", stream |-> {}]
    ELSE IF msg.out_asset.amount = 0
    THEN [err |-> "ZeroOutSupply", stream |-> {}]
    ELSE [err |-> "ok", stream |-> {new_stream(msg)}]

\* nothing is stored before instantiate
InitInstantiate ==
    /\ now = 0
    /\ stream = {}
    /\ positions = << >>
    /\ threshold = {}
    /\ create_pool = {}
    /\ bank_in = 0
    /\ out_paid = 0
    /\ out_refunded = 0
    /\ positions_ever = 0
    /\ deposits = 0
    /\ net_in = [o \in Owners |-> 0]
    /\ index_dust = 0
    /\ factory_params = DefaultParams
    /\ factory = NewFactory(1)
    /\ fee_collected = [c \in Collectors |-> 0]
    /\ vesting = << >>

Instantiate ==
    \E msg \in CreateStreamMsgs :
        /\ stream = {}
        /\ instantiate(now, msg).err = "ok"
        /\ stream' = instantiate(now, msg).stream
        /\ UNCHANGED <<now, positions, threshold, create_pool, bank_in,
                       out_paid, out_refunded, positions_ever, deposits,
                       net_in, index_dust, factory_params, factory,
                       fee_collected, vesting>>

NextInstantiate ==
    \/ Tick
    \/ Instantiate

SpecInstantiate == InitInstantiate /\ [][NextInstantiate]_vars

\* what the documentation asks of a request at the time now_time
ValidRequest(now_time, msg) ==
    /\ msg.bootstraping_start_time <= msg.start_time
    /\ msg.start_time < msg.end_time
    /\ now_time <= msg.start_time
    /\ msg.in_denom # msg.out_asset.denom
    /\ msg.out_asset.amount > 0

\* C36: every stream instantiate accepts has bootstrap_start <= start < end,
\* now <= start, in_denom # out_asset.denom and out_asset.amount > 0; every
\* other request is rejected with InvalidEndTime, InvalidStartTime,
\* SameDenomOnEachSide or ZeroOutSupply and stores nothing; the divisor
\* end - last_updated of a stored stream is positive.
C36_Validated ==
    /\ \A msg \in CreateStreamMsgs :
        LET r == instantiate(now, msg) IN
        IF ValidRequest(now, msg)
        THEN r.err = "ok" /\ r.stream # {}
        ELSE /\ r.err \in {"StreamInvalidEndTime", "StreamInvalidStartTime",
                           "SameDenomOnEachSide", "ZeroOutSupply"}
             /\ r.stream = {}
    /\ \A s \in stream : s.end_time - s.last_updated > 0

\* ===================================================== the input ledger

\* the input the stream accounts for: unspent and spent
in_and_spent(s) == s.in_supply + s.spent_in

\* a successful Subscribe adds the deposit
SubscribeAdds ==
    \A sender \in PositionSenders, target \in Owners, amount \in Amounts :
        LET r == execute_subscribe(sender, NoAddr, target, amount) IN
        r.err = "ok" => in_and_spent(r.stream) = in_and_spent(stream) + amount

\* a successful Withdraw takes the amount it sends
WithdrawTakes ==
    \A sender \in PositionSenders, target \in Owners, cap \in Caps :
        LET r == execute_withdraw(sender, cap, target) IN
        r.err = "ok" =>
            /\ SumSent(r.msgs, "in", {target}) > 0
            /\ in_and_spent(r.stream)
                 = in_and_spent(stream) - SumSent(r.msgs, "in", {target})

\* r leaves the sum as it is
Leaves(r) == r.err = "ok" => in_and_spent(r.stream) = in_and_spent(stream)

\* the advance and the operations that only advance, sync, exit or settle
\* leave the sum
OthersLeave ==
    /\ in_and_spent(update_stream(now, stream)) = in_and_spent(stream)
    /\ Leaves(execute_update_stream)
    /\ \A sender \in PositionSenders, target \in Owners :
        /\ Leaves(execute_update_position(sender, target))
        /\ \A salt \in ExitSalts :
            Leaves(execute_exit_stream(sender, target, salt))
    /\ \A sender \in {Treasury, StreamAdmin},
          new_treasury \in {NoAddr, "new_treasury"} :
        Leaves(execute_finalize_stream(sender, new_treasury))

\* an ExitCancelled leaves the sum
ExitCancelledLeaves ==
    \A sender \in PositionSenders, target \in Owners :
        Leaves(execute_exit_cancelled(sender, target))

\* a successful ExitCancelled takes the amount it sends
ExitCancelledTakes ==
    \A sender \in PositionSenders, target \in Owners :
        LET r == execute_exit_cancelled(sender, target) IN
        r.err = "ok" =>
            in_and_spent(r.stream)
                = in_and_spent(stream) - SumSent(r.msgs, "in", {target})

\* C37 as stated: in_supply + spent_in changes only through Subscribe (plus
\* the deposit) and Withdraw (minus the withdrawn amount); every other
\* operation leaves it.
C37_Original ==
    /\ SubscribeAdds
    /\ WithdrawTakes
    /\ OthersLeave
    /\ ExitCancelledLeaves

\* C37: in_supply + spent_in grows by the deposit of a Subscribe and falls by
\* the amount a Withdraw or an ExitCancelled sends back; the advance,
\* UpdateStream, UpdatePosition, ExitStream and FinalizeStream leave it, so
\* until the revenue is paid out it is the in_denom the contract holds:
\* deposits minus withdrawals and refunds.
C37_InputLedger ==
    /\ SubscribeAdds
    /\ WithdrawTakes
    /\ OthersLeave
    /\ ExitCancelledTakes
    /\ ~is_finalized(stream) => in_and_spent(stream) = bank_in

\* deposits, spending and a withdrawal have happened
C37_Witness ==
    /\ ~is_finalized(stream)
    /\ stream.spent_in > 0
    /\ stream.in_supply > 0
    /\ bank_in < deposits
    /\ positions_ever >= 2

\* ===================================================== the last advance

\* the stream has subscribers and has not been advanced to its end, which
\* has come
LastAdvanceDue ==
    /\ now >= stream.end_time
    /\ stream.shares > 0
    /\ stream.last_updated < stream.end_time

\* o is the only subscriber there has been and has withdrawn nothing
SoleSubscriber(o) ==
    /\ Stored(positions) = {o}
    /\ positions_ever = 1
    /\ bank_in = deposits

\* C38: the first advance at a time now >= end, of a stream with shares > 0
\* and last_updated < end, leaves out_remaining = 0 and in_supply = 0, and the
\* sync that follows finds the whole deposit of a sole subscriber spent.
C38_LastAdvance ==
    LastAdvanceDue =>
        LET s == update_stream(now, stream) IN
        /\ s.out_remaining = 0
        /\ s.in_supply = 0
        /\ in_and_spent(s) = in_and_spent(stream)
        /\ \A o \in Owners :
            SoleSubscriber(o) =>
                /\ update_position(s, positions[o]).spent = deposits
                /\ update_position(s, positions[o]).in_balance = 0

\* the end has come for a sole subscriber whose stream was advanced during
\* the window and still has input and output left
C38_Witness ==
    /\ LastAdvanceDue
    /\ stream.last_updated > StartTime
    /\ stream.out_remaining > 0
    /\ stream.in_supply > 0
    /\ deposits >= 2
    /\ \E o \in Owners : SoleSubscriber(o)

\* ===================================================== shares of a balance

\* a position with unspent input holds shares
HoldsShares(position) == position.in_balance > 0 => position.shares > 0

\* C39: every stored position with in_balance > 0 has shares > 0, as stored
\* and as synced with the advanced stream, and so has the position a
\* successful Withdraw leaves: the round-up burn of a partial Withdraw never
\* takes the last share of a position that keeps unspent input.
C39_BalanceHasShares ==
    /\ \A o \in Stored(positions) :
        /\ HoldsShares(positions[o])
        /\ ~update_position_fails(Advanced, positions[o])
               => HoldsShares(update_position(Advanced, positions[o]))
    /\ \A sender \in PositionSenders, target \in Owners,
          cap \in RoundingCaps :
        LET r == execute_withdraw(sender, cap, target) IN
        r.err = "ok" => HoldsShares(r.positions[target])

\* a partial Withdraw has burnt a rounded-up number of shares of a position
\* that holds more in_balance than its remaining shares are entitled to
C39_Witness ==
    /\ stream.last_updated = now
    /\ 0 < stream.in_supply
    /\ stream.in_supply < stream.shares
    /\ bank_in < deposits
    /\ \E o \in Stored(positions) :
        /\ positions[o].shares > 0
        /\ positions[o].in_balance
             > Entitlement(stream, positions[o].shares)

\* ===================================================== pause and resume
\* The block-height contract with its killswitch: now is the block height,
\* StartTime the start_block, end_time the end_block and last_updated the
\* last_updated_block of the stream.

\* the blocks the chain runs on after the end_block of the stream as created
MaxPause == 2
StreamCreator == Treasury

\* Stream::new: not paused
NewBlockStream ==
    [ dist_index |-> 0,
      last_updated |-> StartTime,
      end_time |-> EndTime,
      out_remaining |-> OutSupply,
      in_supply |-> 0,
      spent_in |-> 0,
      shares |-> 0,
      current_streamed_price |-> 0,
      vesting |-> {},
      status |-> "Waiting",
      pause_block |-> {} ]

is_paused(s) == s.status = "Paused"
is_killswitch_active(s) == s.status = "Cancelled" \/ s.status = "Paused"

\* execute_update_stream of the block-height contract
execute_update_stream_block ==
    IF is_paused(stream) THEN Fail("StreamPaused")
    ELSE Res("ok", update_stream(now, stream), positions, <<>>)

\* execute_subscribe of the block-height contract
execute_subscribe_block(sender, operator, operator_target, in_amount) ==
    IF is_killswitch_active(stream) THEN Fail("StreamKillswitchActive")
    ELSE IF now >= stream.end_time THEN Fail("StreamEnded")
    ELSE IF NoFunds(in_amount) THEN Fail("NoFundsSent")
    ELSE LET s2 == update_stream(now, stream)
             new_shares == compute_shares_amount(s2, in_amount, FALSE)
             s3 == stream_after_subscribe(s2, in_amount, new_shares)
         IN
    IF operator_target \notin Stored(positions)
    THEN IF operator_target # sender THEN Fail("Unauthorized")
         ELSE IF ComputeSharesPanics(s2, in_amount) THEN Fail("DivideByZero")
         ELSE Res("ok", s3,
                  Save(positions, operator_target,
                       NewPosition(sender, in_amount, new_shares,
                                   s2.dist_index, operator)),
                  <<>>)
    ELSE LET position == positions[operator_target] IN
         IF ~check_access(sender, position) THEN Fail("Unauthorized")
         ELSE IF ComputeSharesPanics(s2, in_amount) THEN Fail("DivideByZero")
         ELSE IF update_position_fails(s2, position) THEN Fail("Overflow")
         ELSE LET synced == update_position(s2, position)
                  topped == [synced EXCEPT
                               !.in_balance = synced.in_balance + in_amount,
                               !.shares = synced.shares + new_shares]
              IN Res("ok", s3, Save(positions, operator_target, topped), <<>>)

\* execute_withdraw_paused: the stream is not advanced
execute_withdraw_paused(sender, cap, operator_target) ==
    IF ~is_paused(stream) THEN Fail("StreamNotPaused")
    ELSE IF operator_target \notin Stored(positions) THEN Fail("NotFound")
    ELSE LET position == positions[operator_target] IN
    IF position.owner # sender /\ position.operator # sender
    THEN Fail("Unauthorized")
    ELSE IF update_position_fails(stream, position) THEN Fail("Overflow")
    ELSE LET synced == update_position(stream, position)
             withdraw_amount == IF cap = {} THEN synced.in_balance
                                ELSE CHOOSE c \in cap : TRUE
         IN
    IF withdraw_amount > synced.in_balance
    THEN Fail("WithdrawAmountExceedsBalance")
    ELSE IF withdraw_amount = 0 THEN Fail("InvalidWithdrawAmount")
    ELSE IF withdraw_amount # synced.in_balance
            /\ ComputeSharesPanics(stream, withdraw_amount)
    THEN Fail("DivideByZero")
    ELSE LET shares_amount ==
                 IF withdraw_amount = synced.in_balance THEN synced.shares
                 ELSE compute_shares_amount(stream, withdraw_amount, TRUE)
         IN
    IF \/ stream.in_supply < withdraw_amount
       \/ stream.shares < shares_amount
       \/ synced.shares < shares_amount
    THEN Fail("Overflow")
    ELSE Res("ok",
             stream_after_withdraw(stream, withdraw_amount, shares_amount),
             Save(positions, operator_target,
                  [synced EXCEPT
                     !.in_balance = synced.in_balance - withdraw_amount,
                     !.shares = synced.shares - shares_amount]),
             << BankSend(operator_target, "in", withdraw_amount) >>)

\* pause_stream
pause_stream(now_block, s) ==
    [s EXCEPT !.status = "Paused", !.pause_block = {now_block}]

\* execute_pause_stream
execute_pause_stream(sender, is_sudo) ==
    IF sender # ProtocolAdmin /\ ~is_sudo THEN Fail("Unauthorized")
    ELSE IF now >= stream.end_time THEN Fail("StreamEnded")
    ELSE IF is_killswitch_active(stream) THEN Fail("StreamKillswitchActive")
    ELSE Res("ok", pause_stream(now, update_stream(now, stream)),
             positions, <<>>)

\* a block that stays where it is over a pause
postponed_not(block, pause_block, now_block) == block

\* a block postponed by the length of the pause
postponed(block, pause_block, now_block) ==
    block + (now_block - pause_block)

\* execute_resume_stream
execute_resume_stream(sender, is_sudo) ==
    IF is_cancelled(stream) THEN Fail("StreamIsCancelled")
    ELSE IF stream.status # "Paused" THEN Fail("StreamNotPaused")
    ELSE IF ProtocolAdmin # sender /\ ~is_sudo THEN Fail("Unauthorized")
    ELSE LET pause_block == CHOOSE b \in stream.pause_block : TRUE IN
    IF now < StartTime
    THEN Res("ok",
             [stream EXCEPT !.pause_block = {}, !.status = "Waiting"],
             positions, <<>>)
    ELSE Res("ok",
             [stream EXCEPT
                !.end_time = postponed(stream.end_time, pause_block, now),
                !.last_updated =
                    postponed(stream.last_updated, pause_block, now),
                !.status = "Active",
                !.pause_block = {}],
             positions, <<>>)

\* execute_cancel_stream of the block-height killswitch
execute_cancel_stream_block(sender, is_sudo) ==
    IF ProtocolAdmin # sender /\ StreamCreator # sender /\ ~is_sudo
    THEN Fail("Unauthorized")
    ELSE IF is_cancelled(stream) THEN Fail("StreamIsCancelled")
    ELSE IF ~is_paused(stream) /\ StreamCreator # sender
    THEN Fail("StreamNotPaused")
    ELSE IF /\ StreamCreator = sender
            /\ (IF StartTime > now THEN StartTime - now ELSE 0)
                 < factory_params.min_blocks_until_start_block \div 2
    THEN Fail("Unauthorized")
    ELSE Res("ok", cancel_reset(stream), positions,
             << BankSend(Treasury, "out", OutSupply) >>)

InitPause ==
    /\ now = 0
    /\ stream = NewBlockStream
    /\ positions = << >>
    /\ threshold = {}
    /\ create_pool = {}
    /\ bank_in = 0
    /\ out_paid = 0
    /\ out_refunded = 0
    /\ positions_ever = 0
    /\ deposits = 0
    /\ net_in = [o \in Owners |-> 0]
    /\ index_dust = 0
    /\ factory_params = DefaultParams
    /\ factory = NewFactory(1)
    /\ fee_collected = [c \in Collectors |-> 0]
    /\ vesting = << >>

\* the chain runs for MaxPause blocks after the end_block as created
PauseTick ==
    /\ now < EndTime + MaxPause
    /\ now' = now + 1
    /\ UNCHANGED <<stream, positions, threshold, create_pool, bank_in,
                   out_paid, out_refunded, positions_ever, deposits, net_in,
                   index_dust, factory_params, factory, fee_collected,
                   vesting>>

KillswitchSenders == {ProtocolAdmin, StreamCreator, "alice"}

SubscribeBlock ==
    \E owner \in Owners, amount \in 1..MaxAmount :
        /\ deposits + amount <= MaxDeposits
        /\ Commit(owner, amount,
                  execute_subscribe_block(owner, NoAddr, owner, amount))

UpdateStreamBlock ==
    Commit(NoAddr, 0, execute_update_stream_block)

WithdrawPaused ==
    \E owner \in Owners, cap \in Caps :
        Commit(NoAddr, 0, execute_withdraw_paused(owner, cap, owner))

PauseStream ==
    \E sender \in KillswitchSenders, is_sudo \in BOOLEAN :
        Commit(NoAddr, 0, execute_pause_stream(sender, is_sudo))

ResumeStream ==
    \E sender \in KillswitchSenders, is_sudo \in BOOLEAN :
        Commit(NoAddr, 0, execute_resume_stream(sender, is_sudo))

CancelStreamBlock ==
    \E sender \in KillswitchSenders, is_sudo \in BOOLEAN :
        Commit(NoAddr, 0, execute_cancel_stream_block(sender, is_sudo))

NextPause ==
    \/ PauseTick
    \/ SubscribeBlock
    \/ UpdateStreamBlock
    \/ WithdrawPaused
    \/ PauseStream
    \/ ResumeStream
    \/ CancelStreamBlock

SpecPause == InitPause /\ [][NextPause]_vars

\* the blocks left of the window of s
remaining_window(s) == s.end_time - s.last_updated

\* a successful PauseStream happens before the end_block of a stream that is
\* neither paused nor cancelled, and leaves the advanced stream paused
PauseGate ==
    \A sender \in KillswitchSenders, is_sudo \in BOOLEAN :
        LET r == execute_pause_stream(sender, is_sudo) IN
        r.err = "ok" =>
            /\ now < stream.end_time
            /\ stream.status \notin {"Paused", "Cancelled"}
            /\ r.stream.status = "Paused"
            /\ r.stream.pause_block = {now}
            /\ r.stream.last_updated <= now \/ now < StartTime

\* a successful ResumeStream at or after the start_block postpones end_block
\* and last_updated_block by the length of the pause, leaves the remaining
\* window, out_remaining, in_supply and dist_index, and activates the stream
ResumeKeeps ==
    \A sender \in KillswitchSenders, is_sudo \in BOOLEAN :
        LET r == execute_resume_stream(sender, is_sudo) IN
        (r.err = "ok" /\ now >= StartTime) =>
            \A pause_block \in stream.pause_block :
                /\ r.stream.end_time = stream.end_time + (now - pause_block)
                /\ r.stream.last_updated
                     = stream.last_updated + (now - pause_block)
                /\ remaining_window(r.stream) = remaining_window(stream)
                /\ r.stream.out_remaining = stream.out_remaining
                /\ r.stream.in_supply = stream.in_supply
                /\ r.stream.dist_index = stream.dist_index
                /\ r.stream.status = "Active"
                /\ r.stream.pause_block = {}

\* nothing is distributed for the pause: an advance of the resumed stream
\* at a block n gives what an advance of the paused stream would have given
\* at the block n less the length of the pause
ResumeSkipsPause ==
    \A sender \in KillswitchSenders, is_sudo \in BOOLEAN :
        LET r == execute_resume_stream(sender, is_sudo) IN
        (r.err = "ok" /\ now >= StartTime) =>
            \A pause_block \in stream.pause_block,
               n \in now..(EndTime + MaxPause) :
                LET resumed == update_stream(n, r.stream)
                    paused == update_stream(n - (now - pause_block), stream)
                IN /\ resumed.out_remaining = paused.out_remaining
                   /\ resumed.in_supply = paused.in_supply
                   /\ resumed.dist_index = paused.dist_index

\* no step of a paused stream that stays paused touches the window, what is
\* left to distribute or the index
PausedStep ==
    (is_paused(stream) /\ is_paused(stream')) =>
        /\ stream'.end_time = stream.end_time
        /\ stream'.last_updated = stream.last_updated
        /\ stream'.pause_block = stream.pause_block
        /\ stream'.out_remaining = stream.out_remaining
        /\ stream'.dist_index = stream.dist_index
        /\ stream'.spent_in = stream.spent_in

\* a step of a paused stream that stays paused leaves in_supply
PausedSupplyStep ==
    (is_paused(stream) /\ is_paused(stream')) =>
        stream'.in_supply = stream.in_supply

\* a step of a paused stream that stays paused takes from in_supply only what
\* it sends back to a subscriber
PausedWithdrawStep ==
    (is_paused(stream) /\ is_paused(stream')) =>
        stream.in_supply - stream'.in_supply = bank_in - bank_in'

\* C40 as stated: PauseStream is allowed only before end_block on a stream
\* that is neither paused nor cancelled; from the pause to a ResumeStream at
\* a block r >= start_block the remaining window, out_remaining, in_supply
\* and dist_index stay as they are, end_block and last_updated_block are
\* postponed by r - pause_block, the status is Active again and nothing is
\* distributed for the paused interval.
C40_Original ==
    /\ [](PauseGate /\ ResumeKeeps /\ ResumeSkipsPause)
    /\ [][PausedStep /\ PausedSupplyStep]_vars

\* C40: PauseStream is allowed only before end_block on a stream that is
\* neither paused nor cancelled; from the pause to a ResumeStream at a block
\* r >= start_block the remaining window, out_remaining and dist_index stay
\* as they are and in_supply falls only by what WithdrawPaused sends back,
\* end_block and last_updated_block are postponed by r - pause_block, the
\* status is Active again and nothing is distributed for the paused interval.
C40_PauseResume ==
    /\ [](PauseGate /\ ResumeKeeps /\ ResumeSkipsPause)
    /\ [][PausedStep /\ PausedWithdrawStep]_vars

\* a stream that had distributed before it was paused is active again, its
\* end_block postponed, after a withdrawal made during the pause
C40_Witness ==
    /\ stream.status = "Active"
    /\ stream.end_time > EndTime
    /\ stream.last_updated = now
    /\ stream.dist_index > 0
    /\ stream.out_remaining > 0
    /\ stream.in_supply > 0
    /\ bank_in < deposits

====
